---------------------------- MODULE Spec2Model ----------------------------
(***************************************************************************)
(* A model of the UDD core (kernel/drivers/udd/udd.c): the registrar       *)
(* (udd_register_device / udd_unregister_device), the event bridge         *)
(* (udd_notify_event, udd_read_rt) and the control endpoint handlers.      *)
(*                                                                         *)
(* The specifications share the variables and the actions:                 *)
(*   SpecReg   the registrar alone, over every device description          *)
(*   Spec      an Active device: two handles reading, two raisers          *)
(*   SpecOne   an Active device: one handle, raisers, notification target  *)
(*   SpecDown  an Active device being unregistered while a handle reads    *)
(*   SpecSig   the notification target set and cleared while events rise   *)
(*   SpecLine  the line switched by write and by ioctl, one handle         *)
(*   SpecCtl   the three built-in ioctl requests behind the driver's hook  *)
(*   SpecMap   the mapper device opened and mapped                         *)
(*   SpecSel   a handle selected on and read                               *)
(*   SpecQueue the line switched from two processors                       *)
(*   SpecIrq   the interrupt handler and the driver's classification       *)
(*   SpecBusy  udd_register_device called again on an Active device        *)
(*   SpecWrap  enough events for the counter to wrap, one first read       *)
(*   SpecOpen  handles opened with and without a driver open hook          *)
(*   SpecFrame one handle reading, one writing, selecting and in ioctl     *)
(***************************************************************************)
EXTENDS Integers, Sequences, FiniteSets, TLC

(***************************************************************************)
(* Bounds of the model.                                                    *)
(***************************************************************************)
\* Number of region slots of a device. The header that sets UDD_NR_MAPS is
\* not part of the sources at hand; the model scales it.
UDD_NR_MAPS == 2
\* Largest number of udd_notify_event() calls in one behaviour.
MaxRaise == 2
\* Width in bits of the event counter. The program's counter is a u32; the
\* model checker's integers are 32-bit signed, so the width is scaled down.
CounterBits == 3
\* Capacity of the root-stage work queue line-switch requests are posted to.
MaxWork == 2
\* Largest number of line-switch requests made in one behaviour.
MaxPost == 3
\* Largest number of interrupts the line delivers in one behaviour.
MaxIrq == 3

(***************************************************************************)
(* Program constants.                                                      *)
(***************************************************************************)
UDD_IRQ_NONE == 0
UDD_IRQ_CUSTOM == -1
\* A concrete interrupt line number.
IrqLine == 7
\* u32 event counter: values are taken modulo 2^CounterBits.
U32 == 2 ^ CounterBits
\* sizeof(u32), the only length read and write accept.
SizeofCount == 4
\* Bounds of the real-time signal numbers, and the pid user space names.
SIGRTMIN == 32
SIGRTMAX == 64
TargetPid == 100
\* The pid of the thread that issues the ioctl, and a pid no thread has.
CallerPid == TargetPid + 1
NoPid == TargetPid + 2

ENXIO == -6
EINVAL == -22
EIO == -5
ENOMEM == -12
EEXIST == -17
EBUSY == -16
EAGAIN == -11
EINTR == -4
EIDRM == -43
EFAULT == -14
ENOSYS == -38

NULL == "NULL"

MemTypes == {"UDD_MEM_NONE", "UDD_MEM_PHYS", "UDD_MEM_LOGICAL", "UDD_MEM_VIRTUAL"}

\* struct udd_memregion: the region descriptors a driver author may declare.
\* Every non-NONE type comes valid and with each of the three defects.
Region(t, n, a, l) == [type |-> t, name |-> n, addr |-> a, len |-> l]

NoRegion == Region("UDD_MEM_NONE", NULL, 0, 0)

RegionChoices ==
    { NoRegion,
      Region("UDD_MEM_PHYS", "r", 4096, 4096),
      Region("UDD_MEM_LOGICAL", "r", 4096, 8192),
      Region("UDD_MEM_VIRTUAL", "r", 8192, 4096),
      Region("UDD_MEM_PHYS", NULL, 4096, 4096),
      Region("UDD_MEM_LOGICAL", "r", 0, 4096),
      Region("UDD_MEM_VIRTUAL", "r", 4096, 0) }

Slots == 0 .. (UDD_NR_MAPS - 1)

\* The open handles (struct rtdm_fd) and the callers of udd_notify_event().
Handles == {"h1", "h2"}
Raisers == {"irq", "drv"}
\* The processors, and the one the thread that holds a handle runs on.
Cpus == {0, 1}
CpuOf(h) == IF h = "h1" THEN 0 ELSE 1

VARIABLES
    \* struct udd_device, as filled by the driver author
    irq,            \* udd->irq
    ops,            \* udd->ops: which hooks are set (non-NULL)
    mem_regions,    \* udd->mem_regions[]
    device_name,    \* udd->device_name
    core_enabled,   \* realtime_core_enabled()
    \* struct udd_reserved
    nr_maps,        \* ur->nr_maps
    mapper_name,    \* ur->mapper_name (NULL or the string)
    name_live,      \* the allocation ur->mapper_name points to is outstanding
    name_leaked,    \* an earlier allocation was lost with ur->mapper_name overwritten
    mapper_reg,     \* ur->mapper is registered with RTDM
    irq_bound,      \* ur->irqh is attached to the line
    dev_reg,        \* ur->device is registered with RTDM
    pulse,          \* ur->pulse: "uninit", "live" or "destroyed"
    pending,        \* ur->pulse has a pending signal
    event,          \* ur->event
    signfy,         \* ur->signfy
    \* the registrar's caller
    active,         \* udd_register_device() returned 0, no unregister yet
    reg_pc,         \* position inside register / unregister
    reg_op,         \* the call the registrar last ran
    reg_ret,        \* its return value
    poll_delay,     \* argument of the running unregister
    calls,          \* calls to the substrate made by that call, in order
    \* per open file
    h_open,         \* the fd is open
    h_count,        \* context->event_count
    h_pc,           \* position inside udd_read_rt
    h_ret,          \* return value of the last call on the fd (0 while one runs)
    h_last,         \* value the last successful read copied out (0: none)
    \* callers of udd_notify_event
    r_pc,           \* position inside udd_notify_event
    n_raise,        \* udd_notify_event() calls made so far
    r_own,          \* the counter value this caller's atomic_inc produced
    r_pid,          \* ur->signfy.pid as read at line 268
    \* the environment of the device
    m_open,         \* minors of the mapper device that have an open fd
    m_ret,          \* return value of the last mapper_open
    thr_alive,      \* the thread TargetPid exists (cobalt_thread_find_local)
    sigs,           \* cobalt_sigqueue() calls made, in order
    work,           \* irqswitch_work items posted to the root stage, in order, per processor
    line_call,      \* the last ipipe_enable_irq / ipipe_disable_irq call made (irq 0: none)
    io_arg,         \* udd_ioctl_rt's local signfy, per fd
    \* the mapper device
    mm_last,        \* the last mapper_mmap call: minor, len, what did the mapping, ret
    \* select
    h_sel,          \* the fd has a selector bound to ur->pulse
    \* udd_irq_handler
    k_pc,           \* position inside udd_irq_handler
    k_res,          \* ret, as udd->ops.interrupt returned it
    k_ret,          \* what the handler last returned
    n_irq,          \* interrupts delivered so far
    n_handled,      \* of these, those the driver reported handled
    \* history of the line-switch requests
    asked,          \* the calls of switch_irq_line made, in order
    ran             \* the calls of lostage_irqswitch_line made, in order

descVars == <<irq, ops, mem_regions, device_name, core_enabled>>
resVars == <<nr_maps, mapper_name, name_live, name_leaked, mapper_reg, irq_bound, dev_reg>>
bridgeVars == <<pulse, pending, event, signfy>>
regVars == <<active, reg_pc, reg_op, reg_ret, poll_delay, calls>>
handleVars == <<h_open, h_count, h_pc, h_ret, h_last>>
raiseVars == <<r_pc, n_raise, r_own, r_pid>>
auxVars == <<m_open, m_ret, thr_alive, sigs, work, line_call, io_arg>>
mapVars == <<mm_last>>
irqVars == <<k_pc, k_res, k_ret, n_irq, n_handled>>
histVars == <<asked, ran>>

vars == <<descVars, resVars, bridgeVars, regVars, handleVars, raiseVars, auxVars,
          mapVars, h_sel, irqVars, histVars>>

(***************************************************************************)
(* Region Table: check_memregion and the validation loop.                  *)
(***************************************************************************)
\* check_memregion's verdict on one descriptor, with the len check dropped.
check_memregion_nolen(rn) ==
    IF rn.type = "UDD_MEM_NONE" THEN 0
    ELSE IF rn.name = NULL THEN EINVAL
    ELSE IF rn.addr = 0 THEN EINVAL
    ELSE 0

\* check_memregion's return value for one descriptor.
check_memregion(rn) ==
    IF rn.type = "UDD_MEM_NONE" THEN 0
    ELSE IF rn.name = NULL THEN EINVAL
    ELSE IF rn.addr = 0 THEN EINVAL
    ELSE IF rn.len = 0 THEN EINVAL
    ELSE 0

\* The loop of udd_register_device over the slots from n on, with cnt
\* regions counted so far: the return value and the value left in nr_maps.
RECURSIVE ValidateFrom(_, _, _)
ValidateFrom(regs, n, cnt) ==
    IF n >= UDD_NR_MAPS THEN [ret |-> 0, nr |-> cnt]
    ELSE IF check_memregion(regs[n]) # 0
         THEN [ret |-> check_memregion(regs[n]), nr |-> cnt]
         ELSE ValidateFrom(regs, n + 1,
                           IF regs[n].type = "UDD_MEM_NONE" THEN cnt ELSE cnt + 1)

ConcreteIrq == irq # UDD_IRQ_NONE /\ irq # UDD_IRQ_CUSTOM

\* switch_irq_line filling the descriptor with the opposite state.
switch_irq_line_inverted(line, enable) == [irq |-> line, enabled |-> ~enable]

\* switch_irq_line (443-452): the work descriptor it fills.
switch_irq_line(line, enable) == [irq |-> line, enabled |-> enable]

\* kasformat() given the format "%s".
MapperNameOf_plain(name) == name

\* kasformat("%s,mapper", name)
MapperNameOf(name) == name \o ",mapper"

Log(c) == calls' = Append(calls, c)


(***************************************************************************)
(* The substrate the registrar calls (RTDM device registration, IRQ and    *)
(* event services). Each operator is the effect of one call.               *)
(***************************************************************************)
\* rtdm_event_init(&ur->pulse, 0): live, nothing pending.
rtdm_event_init ==
    /\ pulse' = "live"
    /\ pending' = FALSE

\* rtdm_event_destroy(&ur->pulse): the object is marked deleted and every
\* thread sleeping on it is readied; its wait will report the deletion.
rtdm_event_destroy ==
    /\ pulse' = "destroyed"
    /\ h_pc' = [h \in Handles |-> IF h_pc[h] = "rd_sleep" THEN "rd_rmid" ELSE h_pc[h]]

\* rtdm_irq_free(&ur->irqh): the handler is detached from the line.
rtdm_irq_free == irq_bound' = FALSE

\* Some handle of the control device is still open.
DeviceBusy == \E h \in Handles : h_open[h]

(***************************************************************************)
(* udd_register_device                                                     *)
(***************************************************************************)
Return(ret) ==
    /\ reg_pc' = "idle"
    /\ reg_ret' = ret

\* Lines 332-342: the checks made before anything is acquired.
RegisterValidate ==
    LET v == ValidateFrom(mem_regions, 0, 0) IN
    IF ~core_enabled THEN [ret |-> ENXIO, nr |-> nr_maps]
    ELSE IF irq # UDD_IRQ_NONE /\ ~ops.interrupt THEN [ret |-> EINVAL, nr |-> nr_maps]
    ELSE v

\* Lines 326-342: udd_register_device from its entry to the end of the
\* checks. Nothing in them looks at whether the device is registered already.
RegisterEnter ==
    /\ reg_pc = "idle"
    /\ reg_op' = "register"
    /\ calls' = <<>>
    /\ nr_maps' = RegisterValidate.nr
    /\ IF RegisterValidate.ret # 0
       THEN Return(RegisterValidate.ret)
       ELSE reg_pc' = "r_mapper" /\ reg_ret' = 0
    /\ UNCHANGED <<descVars, mapVars, h_sel, irqVars, histVars, mapper_name, name_live, name_leaked, mapper_reg, irq_bound, dev_reg,
                   bridgeVars, active, poll_delay, handleVars, raiseVars, auxVars>>

\* udd_register_device is entered on a device that is not Active.
RegisterCall ==
    /\ ~active
    /\ ~dev_reg
    /\ RegisterEnter

\* udd_register_device is entered again on a device that is Active.
RegisterAgain ==
    /\ active
    /\ RegisterEnter

\* Lines 365-370 and register_mapper (296-324). kasformat() may return NULL
\* and rtdm_dev_register(&ur->mapper) may fail; a name still allocated when
\* ur->mapper_name is overwritten is lost.
RegisterMapper ==
    /\ reg_pc = "r_mapper"
    /\ IF nr_maps > 0
       THEN \/ /\ mapper_name' = NULL
               /\ name_live' = FALSE
               /\ name_leaked' = (name_leaked \/ name_live)
               /\ Log("kasformat_fail")
               /\ Return(ENOMEM)
               /\ UNCHANGED mapper_reg
            \/ /\ mapper_name' = MapperNameOf(device_name)
               /\ name_live' = TRUE
               /\ name_leaked' = (name_leaked \/ name_live)
               /\ calls' = calls \o <<"kasformat", "mapper_register_fail">>
               /\ Return(EEXIST)
               /\ UNCHANGED mapper_reg
            \/ /\ mapper_name' = MapperNameOf(device_name)
               /\ name_live' = TRUE
               /\ name_leaked' = (name_leaked \/ name_live)
               /\ mapper_reg' = TRUE
               /\ calls' = calls \o <<"kasformat", "mapper_register">>
               /\ reg_pc' = "r_event"
               /\ UNCHANGED reg_ret
       ELSE /\ mapper_name' = NULL
            /\ name_live' = FALSE
            /\ name_leaked' = (name_leaked \/ name_live)
            /\ reg_pc' = "r_event"
            /\ UNCHANGED <<mapper_reg, calls, reg_ret>>
    /\ UNCHANGED <<descVars, mapVars, h_sel, irqVars, histVars, nr_maps, irq_bound, dev_reg, bridgeVars, active, reg_op,
                   poll_delay, handleVars, raiseVars, auxVars>>

\* Lines 372-374.
RegisterEvent ==
    /\ reg_pc = "r_event"
    /\ event' = 0
    /\ rtdm_event_init
    /\ signfy' = [signfy EXCEPT !.pid = -1]
    /\ Log("event_init")
    /\ reg_pc' = "r_irq"
    /\ UNCHANGED <<descVars, mapVars, h_sel, irqVars, histVars, resVars, active, reg_op, reg_ret, poll_delay,
                   handleVars, raiseVars, auxVars>>

\* Lines 376-382.
RegisterIrq ==
    /\ reg_pc = "r_irq"
    /\ IF ConcreteIrq
       THEN \/ /\ irq_bound' = TRUE
               /\ Log("irq_request")
               /\ reg_pc' = "r_dev"
               /\ UNCHANGED reg_ret
            \/ /\ Log("irq_request_fail")
               /\ reg_pc' = "fail_irq_request"
               /\ reg_ret' = EBUSY
               /\ UNCHANGED irq_bound
       ELSE /\ reg_pc' = "r_dev"
            /\ UNCHANGED <<irq_bound, calls, reg_ret>>
    /\ UNCHANGED <<descVars, mapVars, h_sel, irqVars, histVars, nr_maps, mapper_name, name_live, name_leaked, mapper_reg, dev_reg,
                   bridgeVars, active, reg_op, poll_delay, handleVars, raiseVars, auxVars>>

\* Lines 384-388.
RegisterDev ==
    /\ reg_pc = "r_dev"
    /\ \/ /\ dev_reg' = TRUE
          /\ active' = TRUE
          /\ Log("dev_register")
          /\ Return(0)
       \/ /\ Log("dev_register_fail")
          /\ reg_pc' = "fail_dev_register"
          /\ reg_ret' = EEXIST
          /\ UNCHANGED <<dev_reg, active>>
    /\ UNCHANGED <<descVars, mapVars, h_sel, irqVars, histVars, nr_maps, mapper_name, name_live, name_leaked, mapper_reg, irq_bound,
                   bridgeVars, reg_op, poll_delay, handleVars, raiseVars, auxVars>>

\* Line 391, label fail_dev_register.
RegisterFailDev ==
    /\ reg_pc = "fail_dev_register"
    /\ rtdm_irq_free
    /\ Log("irq_free")
    /\ reg_pc' = "fail_irq_request"
    /\ UNCHANGED <<descVars, mapVars, h_sel, irqVars, histVars, nr_maps, mapper_name, name_live, name_leaked, mapper_reg, dev_reg,
                   bridgeVars, active, reg_op, reg_ret, poll_delay, handleVars, raiseVars, auxVars>>

\* Lines 393-396, label fail_irq_request.
RegisterFailIrq ==
    /\ reg_pc = "fail_irq_request"
    /\ mapper_reg' = FALSE
    /\ name_live' = (IF mapper_name # NULL THEN FALSE ELSE name_live)
    /\ calls' = calls \o <<"mapper_unregister">>
                      \o (IF mapper_name # NULL THEN <<"kfree">> ELSE << >>)
    /\ Return(reg_ret)
    /\ UNCHANGED <<descVars, mapVars, h_sel, irqVars, histVars, nr_maps, mapper_name, name_leaked, irq_bound, dev_reg, bridgeVars,
                   active, reg_op, poll_delay, handleVars, raiseVars, auxVars>>

(***************************************************************************)
(* udd_unregister_device                                                   *)
(***************************************************************************)
\* Lines 405-406, entered on an Active device with some poll_delay.
UnregisterCall ==
    /\ reg_pc = "idle"
    /\ active
    /\ \E pd \in {0, 1} : poll_delay' = pd
    /\ reg_op' = "unregister"
    /\ calls' = <<>>
    /\ active' = FALSE
    /\ IF ~core_enabled
       THEN Return(ENXIO)
       ELSE reg_pc' = "u_event" /\ reg_ret' = 0
    /\ UNCHANGED <<descVars, mapVars, h_sel, irqVars, histVars, resVars, bridgeVars, handleVars, raiseVars, auxVars>>

\* Line 408.
UnregisterEvent ==
    /\ reg_pc = "u_event"
    /\ rtdm_event_destroy
    /\ Log("event_destroy")
    /\ reg_pc' = "u_irq"
    /\ UNCHANGED <<descVars, mapVars, h_sel, irqVars, histVars, resVars, pending, event, signfy, active, reg_op, reg_ret,
                   poll_delay, h_open, h_count, h_ret, h_last, raiseVars, auxVars>>

\* Lines 410-411.
UnregisterIrq ==
    /\ reg_pc = "u_irq"
    /\ IF ConcreteIrq
       THEN rtdm_irq_free /\ Log("irq_free")
       ELSE UNCHANGED <<irq_bound, calls>>
    /\ reg_pc' = "u_mapper"
    /\ UNCHANGED <<descVars, mapVars, h_sel, irqVars, histVars, nr_maps, mapper_name, name_live, name_leaked, mapper_reg, dev_reg,
                   bridgeVars, active, reg_op, reg_ret, poll_delay, handleVars, raiseVars, auxVars>>

\* rtdm_dev_unregister(&ur->mapper, poll_delay): a device that is not
\* registered is left alone; a registered one goes away when none of its
\* fds is open; with one open, a zero poll_delay gives up at once and a
\* nonzero one keeps polling until the fds are closed.
rtdm_dev_unregister_mapper ==
    IF mapper_reg /\ m_open # {}
    THEN [ret |-> EAGAIN, gone |-> FALSE, polls |-> poll_delay # 0]
    ELSE [ret |-> 0, gone |-> TRUE, polls |-> FALSE]

\* Line 413 giving up when the mapper could not be unregistered.
UnregisterMapper_abort ==
    /\ reg_pc = "u_mapper"
    /\ ~rtdm_dev_unregister_mapper.polls
    /\ IF rtdm_dev_unregister_mapper.ret # 0
       THEN /\ Return(rtdm_dev_unregister_mapper.ret)
            /\ UNCHANGED mapper_reg
       ELSE /\ mapper_reg' = FALSE
            /\ reg_pc' = "u_name"
            /\ UNCHANGED reg_ret
    /\ Log("mapper_unregister")
    /\ UNCHANGED <<descVars, mapVars, h_sel, irqVars, histVars, nr_maps, mapper_name, name_live, name_leaked, irq_bound, dev_reg,
                   bridgeVars, active, reg_op, poll_delay, handleVars, raiseVars, auxVars>>

\* Line 413: rtdm_dev_unregister(&ur->mapper, poll_delay), called whether or
\* not the mapper was registered, its result dropped.
UnregisterMapper ==
    /\ reg_pc = "u_mapper"
    /\ ~rtdm_dev_unregister_mapper.polls
    /\ mapper_reg' = (mapper_reg /\ ~rtdm_dev_unregister_mapper.gone)
    /\ Log("mapper_unregister")
    /\ reg_pc' = "u_name"
    /\ UNCHANGED <<descVars, mapVars, h_sel, irqVars, histVars, nr_maps, mapper_name, name_live, name_leaked, irq_bound, dev_reg,
                   bridgeVars, active, reg_op, reg_ret, poll_delay, handleVars, raiseVars, auxVars>>

\* Lines 415-416 with the kfree forgotten.
UnregisterName_nofree ==
    /\ reg_pc = "u_name"
    /\ reg_pc' = "u_dev"
    /\ UNCHANGED <<descVars, mapVars, h_sel, irqVars, histVars, resVars, bridgeVars, active, reg_op, reg_ret, poll_delay,
                   calls, handleVars, raiseVars, auxVars>>

\* Lines 415-416: the pointer itself is left as it is.
UnregisterName ==
    /\ reg_pc = "u_name"
    /\ IF mapper_name # NULL
       THEN name_live' = FALSE /\ Log("kfree")
       ELSE UNCHANGED <<name_live, calls>>
    /\ reg_pc' = "u_dev"
    /\ UNCHANGED <<descVars, mapVars, h_sel, irqVars, histVars, nr_maps, mapper_name, name_leaked, mapper_reg, irq_bound, dev_reg,
                   bridgeVars, active, reg_op, reg_ret, poll_delay, handleVars, raiseVars, auxVars>>

\* rtdm_dev_unregister(&ur->device, poll_delay): with no handle open the
\* device goes away; with one open, a zero poll_delay gives up at once and
\* a nonzero one keeps polling until the handles are closed.
rtdm_dev_unregister_device ==
    IF DeviceBusy
    THEN [ret |-> EAGAIN, gone |-> FALSE, polls |-> poll_delay # 0]
    ELSE [ret |-> 0, gone |-> TRUE, polls |-> FALSE]

\* Line 418.
UnregisterDev ==
    /\ reg_pc = "u_dev"
    /\ ~rtdm_dev_unregister_device.polls
    /\ dev_reg' = (dev_reg /\ ~rtdm_dev_unregister_device.gone)
    /\ Log("dev_unregister")
    /\ Return(rtdm_dev_unregister_device.ret)
    /\ UNCHANGED <<descVars, mapVars, h_sel, irqVars, histVars, nr_maps, mapper_name, name_live, name_leaked, mapper_reg, irq_bound,
                   bridgeVars, active, reg_op, poll_delay, handleVars, raiseVars, auxVars>>

(***************************************************************************)
(* The registrar alone, over every device description.                     *)
(***************************************************************************)
\* No handle, no raiser: the state of the per-file and raiser variables
\* before anything was opened.
HandlesClosed ==
    /\ h_open = [h \in Handles |-> FALSE]
    /\ h_count = [h \in Handles |-> 0]
    /\ h_pc = [h \in Handles |-> "idle"]
    /\ h_ret = [h \in Handles |-> 0]
    /\ h_last = [h \in Handles |-> 0]
    /\ r_pc = [r \in Raisers |-> "idle"]
    /\ n_raise = 0
    /\ r_own = [r \in Raisers |-> 0]
    /\ r_pid = [r \in Raisers |-> 0]
    /\ m_open = {}
    /\ m_ret = 0
    /\ thr_alive = TRUE
    /\ sigs = <<>>
    /\ work = [c \in Cpus |-> <<>>]
    /\ line_call = switch_irq_line(UDD_IRQ_NONE, FALSE)
    /\ io_arg = [h \in Handles |-> [pid |-> 0, sig |-> 0]]
    /\ mm_last = [minor |-> -1, len |-> 0, via |-> "none", addr |-> 0, ret |-> 0]
    /\ h_sel = [h \in Handles |-> FALSE]
    /\ k_pc = "idle"
    /\ k_res = "none"
    /\ k_ret = "none"
    /\ n_irq = 0
    /\ n_handled = 0
    /\ asked = <<>>
    /\ ran = <<>>

\* The struct udd_device is static storage filled by the driver author:
\* __reserved starts zeroed.
Unregistered ==
    /\ nr_maps = 0
    /\ mapper_name = NULL
    /\ name_live = FALSE
    /\ name_leaked = FALSE
    /\ mapper_reg = FALSE
    /\ irq_bound = FALSE
    /\ dev_reg = FALSE
    /\ pulse = "uninit"
    /\ pending = FALSE
    /\ event = 0
    /\ signfy = [pid |-> 0, sig |-> 0]
    /\ active = FALSE
    /\ reg_pc = "idle"
    /\ reg_op = "none"
    /\ reg_ret = 0
    /\ poll_delay = 0
    /\ calls = <<>>

InitReg ==
    /\ irq \in {UDD_IRQ_NONE, UDD_IRQ_CUSTOM, IrqLine}
    /\ ops \in [open : {FALSE}, ioctl : {FALSE}, mmap : {FALSE}, interrupt : BOOLEAN]
    /\ mem_regions \in [Slots -> RegionChoices]
    /\ device_name = "foo"
    /\ core_enabled \in BOOLEAN
    /\ Unregistered
    /\ HandlesClosed

NextReg ==
    \/ RegisterCall
    \/ RegisterMapper
    \/ RegisterEvent
    \/ RegisterIrq
    \/ RegisterDev
    \/ RegisterFailDev
    \/ RegisterFailIrq
    \/ UnregisterCall
    \/ UnregisterEvent
    \/ UnregisterIrq
    \/ UnregisterMapper
    \/ UnregisterName
    \/ UnregisterDev

SpecReg == InitReg /\ [][NextReg]_vars

(***************************************************************************)
(* Control endpoint: udd_open, udd_close, udd_read_rt.                     *)
(***************************************************************************)
\* udd_open starting the handle's count at the current value of the counter.
Open_current(h) ==
    /\ dev_reg
    /\ ~h_open[h]
    /\ \E hook \in (IF ops.open THEN {0, EBUSY} ELSE {0}) :
          IF hook # 0
          THEN /\ h_ret' = [h_ret EXCEPT ![h] = hook]
               /\ UNCHANGED <<h_open, h_count, h_last>>
          ELSE /\ h_open' = [h_open EXCEPT ![h] = TRUE]
               /\ h_count' = [h_count EXCEPT ![h] = event]
               /\ h_last' = [h_last EXCEPT ![h] = 0]
               /\ h_ret' = [h_ret EXCEPT ![h] = 0]
    /\ UNCHANGED <<descVars, mapVars, h_sel, irqVars, histVars, resVars, bridgeVars, regVars, h_pc, raiseVars, auxVars>>

\* udd_open (32-49). The driver's open hook, when set, may refuse.
Open(h) ==
    /\ dev_reg
    /\ ~h_open[h]
    /\ \E hook \in (IF ops.open THEN {0, EBUSY} ELSE {0}) :
          IF hook # 0
          THEN /\ h_ret' = [h_ret EXCEPT ![h] = hook]
               /\ UNCHANGED <<h_open, h_count, h_last>>
          ELSE /\ h_open' = [h_open EXCEPT ![h] = TRUE]
               /\ h_count' = [h_count EXCEPT ![h] = 0]
               /\ h_last' = [h_last EXCEPT ![h] = 0]
               /\ h_ret' = [h_ret EXCEPT ![h] = 0]
    /\ UNCHANGED <<descVars, mapVars, h_sel, irqVars, histVars, resVars, bridgeVars, regVars, h_pc, raiseVars, auxVars>>

\* udd_close (51-58), on a handle with no call in flight. Closing the fd
\* drops the selector bindings made through it.
Close(h) ==
    /\ h_open[h]
    /\ h_pc[h] = "idle"
    /\ h_open' = [h_open EXCEPT ![h] = FALSE]
    /\ h_sel' = [h_sel EXCEPT ![h] = FALSE]
    /\ UNCHANGED <<descVars, mapVars, irqVars, histVars, resVars, bridgeVars, regVars, h_count, h_pc, h_ret,
                   h_last, raiseVars, auxVars>>

\* Lines 117-125 with the length check of line 117 left out.
ReadCall_nolen(h, len) ==
    /\ h_open[h]
    /\ h_pc[h] = "idle"
    /\ IF irq = UDD_IRQ_NONE
       THEN /\ h_ret' = [h_ret EXCEPT ![h] = EIO]
            /\ UNCHANGED h_pc
       ELSE /\ h_ret' = [h_ret EXCEPT ![h] = 0]
            /\ h_pc' = [h_pc EXCEPT ![h] = "rd_check"]
    /\ UNCHANGED <<descVars, mapVars, h_sel, irqVars, histVars, resVars, bridgeVars, regVars, h_open, h_count, h_last,
                   raiseVars, auxVars>>

\* udd_read_rt, lines 117-125: the checks made before the loop.
ReadCall(h, len) ==
    /\ h_open[h]
    /\ h_pc[h] = "idle"
    /\ IF len # SizeofCount
       THEN /\ h_ret' = [h_ret EXCEPT ![h] = EINVAL]
            /\ UNCHANGED h_pc
       ELSE IF irq = UDD_IRQ_NONE
       THEN /\ h_ret' = [h_ret EXCEPT ![h] = EIO]
            /\ UNCHANGED h_pc
       ELSE /\ h_ret' = [h_ret EXCEPT ![h] = 0]
            /\ h_pc' = [h_pc EXCEPT ![h] = "rd_check"]
    /\ UNCHANGED <<descVars, mapVars, h_sel, irqVars, histVars, resVars, bridgeVars, regVars, h_open, h_count, h_last,
                   raiseVars, auxVars>>

\* Line 128 with the test always passing.
ReadReady_always(h) == TRUE

\* Line 128: the loop's exit test.
ReadReady(h) == event # h_count[h]

\* Lines 127-130: the test, then either out of the loop or on to the wait.
ReadCheck(h) ==
    /\ h_pc[h] = "rd_check"
    /\ h_pc' = [h_pc EXCEPT ![h] = IF ReadReady(h) THEN "rd_fetch" ELSE "rd_wait"]
    /\ UNCHANGED <<descVars, mapVars, h_sel, irqVars, histVars, resVars, bridgeVars, regVars, h_open, h_count, h_ret,
                   h_last, raiseVars, auxVars>>

\* Entering rtdm_event_wait(&ur->pulse): a deleted event is reported, a
\* pending signal is consumed and the call returns at once, otherwise the
\* caller goes to sleep on the event.
rtdm_event_wait_entry ==
    IF pulse = "destroyed" THEN "deleted"
    ELSE IF pending THEN "consume"
    ELSE "sleep"

\* Line 130, the call of rtdm_event_wait.
ReadWait(h) ==
    /\ h_pc[h] = "rd_wait"
    /\ IF rtdm_event_wait_entry = "deleted"
       THEN /\ h_pc' = [h_pc EXCEPT ![h] = "idle"]
            /\ h_ret' = [h_ret EXCEPT ![h] = EIDRM]
            /\ UNCHANGED pending
       ELSE IF rtdm_event_wait_entry = "consume"
       THEN /\ pending' = FALSE
            /\ h_pc' = [h_pc EXCEPT ![h] = "rd_check"]
            /\ UNCHANGED h_ret
       ELSE /\ h_pc' = [h_pc EXCEPT ![h] = "rd_sleep"]
            /\ UNCHANGED <<pending, h_ret>>
    /\ UNCHANGED <<descVars, mapVars, h_sel, irqVars, histVars, resVars, pulse, event, signfy, regVars, h_open, h_count,
                   h_last, raiseVars, auxVars>>

\* Lines 130-132, the sleeper resumes after a signal: it clears the pending
\* state, rtdm_event_wait returns 0 and the loop goes round.
ReadWoken(h) ==
    /\ h_pc[h] = "rd_woken"
    /\ pending' = FALSE
    /\ h_pc' = [h_pc EXCEPT ![h] = "rd_check"]
    /\ UNCHANGED <<descVars, mapVars, h_sel, irqVars, histVars, resVars, pulse, event, signfy, regVars, h_open, h_count,
                   h_ret, h_last, raiseVars, auxVars>>

\* Lines 130-132, the sleeper resumes because the event was deleted:
\* rtdm_event_wait returns -EIDRM and so does the read.
ReadRemoved(h) ==
    /\ h_pc[h] = "rd_rmid"
    /\ h_pc' = [h_pc EXCEPT ![h] = "idle"]
    /\ h_ret' = [h_ret EXCEPT ![h] = EIDRM]
    /\ UNCHANGED <<descVars, mapVars, h_sel, irqVars, histVars, resVars, bridgeVars, regVars, h_open, h_count, h_last,
                   raiseVars, auxVars>>

\* Lines 130-132 going round the loop when the wait was interrupted.
ReadInterrupted_retry(h) ==
    /\ h_pc[h] = "rd_sleep"
    /\ h_pc' = [h_pc EXCEPT ![h] = "rd_check"]
    /\ UNCHANGED <<descVars, mapVars, h_sel, irqVars, histVars, resVars, bridgeVars, regVars, h_open, h_count, h_ret, h_last,
                   raiseVars, auxVars>>

\* Lines 130-132, the sleeper is interrupted (a signal to the calling
\* thread): rtdm_event_wait returns -EINTR and so does the read.
ReadInterrupted(h) ==
    /\ h_pc[h] = "rd_sleep"
    /\ h_pc' = [h_pc EXCEPT ![h] = "idle"]
    /\ h_ret' = [h_ret EXCEPT ![h] = EINTR]
    /\ UNCHANGED <<descVars, mapVars, h_sel, irqVars, histVars, resVars, bridgeVars, regVars, h_open, h_count, h_last,
                   raiseVars, auxVars>>

\* Lines 135-139 storing the count the handle already had.
ReadFetchCount_stale(h) == h_count[h]

\* Lines 135-136: the value read from the shared counter.
ReadFetchCount(h) == event

\* Lines 135-139 storing the count in every context of the device.
ReadFetch_shared(h) ==
    /\ h_pc[h] = "rd_fetch"
    /\ h_count' = [g \in Handles |-> ReadFetchCount(h)]
    /\ \E copied \in BOOLEAN :
          IF copied
          THEN /\ h_ret' = [h_ret EXCEPT ![h] = SizeofCount]
               /\ h_last' = [h_last EXCEPT ![h] = ReadFetchCount(h)]
          ELSE /\ h_ret' = [h_ret EXCEPT ![h] = EFAULT]
               /\ UNCHANGED h_last
    /\ h_pc' = [h_pc EXCEPT ![h] = "idle"]
    /\ UNCHANGED <<descVars, mapVars, h_sel, irqVars, histVars, resVars, bridgeVars, regVars, h_open, raiseVars, auxVars>>

\* Lines 135-139: the counter is read and stored in the context, then
\* copied out; rtdm_copy_to_user may fail.
ReadFetch(h) ==
    /\ h_pc[h] = "rd_fetch"
    /\ h_count' = [h_count EXCEPT ![h] = ReadFetchCount(h)]
    /\ \E copied \in BOOLEAN :
          IF copied
          THEN /\ h_ret' = [h_ret EXCEPT ![h] = SizeofCount]
               /\ h_last' = [h_last EXCEPT ![h] = ReadFetchCount(h)]
          ELSE /\ h_ret' = [h_ret EXCEPT ![h] = EFAULT]
               /\ UNCHANGED h_last
    /\ h_pc' = [h_pc EXCEPT ![h] = "idle"]
    /\ UNCHANGED <<descVars, mapVars, h_sel, irqVars, histVars, resVars, bridgeVars, regVars, h_open, raiseVars, auxVars>>

(***************************************************************************)
(* Event bridge: udd_notify_event (260-272) and the RTDM event it signals. *)
(***************************************************************************)
\* An increment that is lost when another caller is inside the function.
atomic_inc_lossy(v) ==
    IF \E r \in Raisers : r_pc[r] # "idle" THEN v ELSE (v + 1) % U32

\* atomic_inc(&ur->event) on a 32-bit counter.
atomic_inc(v) == (v + 1) % U32

\* rtdm_event_signal(&ur->pulse): the event becomes pending and every thread
\* sleeping on it is readied. It never waits.
rtdm_event_signal ==
    /\ pending' = TRUE
    /\ h_pc' = [h \in Handles |-> IF h_pc[h] = "rd_sleep" THEN "rd_woken" ELSE h_pc[h]]

\* Who may call udd_notify_event: the interrupt handler while it is bound to
\* the line, the driver itself while its device is Active.
MayRaise(r) == IF r = "irq" THEN irq_bound ELSE active

\* Line 265, by a caller that is not inside the function yet.
RaiseEnter(r) ==
    /\ r_pc[r] = "idle"
    /\ n_raise < MaxRaise
    /\ event' = atomic_inc(event)
    /\ n_raise' = n_raise + 1
    /\ r_own' = [r_own EXCEPT ![r] = atomic_inc(event)]
    /\ r_pc' = [r_pc EXCEPT ![r] = "signal"]

\* udd_notify_event is called: line 265.
RaiseInc(r) ==
    /\ MayRaise(r)
    /\ RaiseEnter(r)
    /\ UNCHANGED <<descVars, mapVars, h_sel, irqVars, histVars, resVars, pulse, pending, signfy, regVars, handleVars,
                   r_pid, auxVars>>

\* Line 266 waiting until the previous signal has been consumed.
RaiseSignal_blocking(r) ==
    /\ r_pc[r] = "signal"
    /\ ~pending
    /\ rtdm_event_signal
    /\ r_pc' = [r_pc EXCEPT ![r] = "notify"]
    /\ UNCHANGED <<descVars, mapVars, h_sel, irqVars, histVars, resVars, pulse, event, signfy, regVars, h_open, h_count,
                   h_ret, h_last, n_raise, r_own, r_pid, auxVars>>

\* Line 266.
RaiseSignal(r) ==
    /\ r_pc[r] = "signal"
    /\ rtdm_event_signal
    /\ r_pc' = [r_pc EXCEPT ![r] = "notify"]
    /\ UNCHANGED <<descVars, mapVars, h_sel, irqVars, histVars, resVars, pulse, event, signfy, regVars, h_open, h_count,
                   h_ret, h_last, n_raise, r_own, r_pid, auxVars>>

\* cobalt_thread_find_local(pid) != NULL: the thread TargetPid until it
\* exits, and the thread that issues the ioctl.
ThreadFound(pid) == (pid = TargetPid /\ thr_alive) \/ pid = CallerPid

\* A caller of udd_notify_event is done: its locals are dead.
RaiseDone(r) ==
    /\ r_pc' = [r_pc EXCEPT ![r] = "idle"]
    /\ r_own' = [r_own EXCEPT ![r] = 0]
    /\ r_pid' = [r_pid EXCEPT ![r] = 0]

\* Line 268: the test of ur->signfy.pid, read without any lock.
RaiseNotify(r) ==
    /\ r_pc[r] = "notify"
    /\ IF signfy.pid > 0
       THEN /\ r_pid' = [r_pid EXCEPT ![r] = signfy.pid]
            /\ r_pc' = [r_pc EXCEPT ![r] = "sigqueue"]
            /\ UNCHANGED r_own
       ELSE RaiseDone(r)
    /\ UNCHANGED <<descVars, mapVars, h_sel, irqVars, histVars, resVars, bridgeVars, regVars, handleVars, n_raise, auxVars>>

\* Line 269: sival.sival_int = atomic_read(&ur->event).
RaiseSivalOf(r) == event

\* Lines 269-270. The counter is read again for the payload. ur->signfy.pid
\* and ur->signfy.sig are plain reads racing with the store of line 84 or
\* 90; the pid passed is the one line 268 read (kept in a register) or the
\* one read again here. cobalt_sigqueue's result (it fails when no such
\* thread exists) is dropped.
RaiseSigqueue(r) ==
    /\ r_pc[r] = "sigqueue"
    /\ \E pid \in {r_pid[r], signfy.pid} :
          sigs' = Append(sigs, [pid |-> pid, sig |-> signfy.sig, val |-> RaiseSivalOf(r),
                                own |-> r_own[r], ok |-> ThreadFound(pid)])
    /\ RaiseDone(r)
    /\ UNCHANGED <<descVars, mapVars, h_sel, irqVars, histVars, resVars, bridgeVars, regVars, handleVars, n_raise,
                   m_open, m_ret, thr_alive, work, line_call, io_arg>>

\* The thread user space named as the notification target exits.
ThreadExit ==
    /\ thr_alive
    /\ thr_alive' = FALSE
    /\ UNCHANGED <<descVars, mapVars, h_sel, irqVars, histVars, resVars, bridgeVars, regVars, handleVars, raiseVars,
                   m_open, m_ret, sigs, work, line_call, io_arg>>

(***************************************************************************)
(* udd_irq_handler (173-189).                                              *)
(***************************************************************************)
\* What udd->ops.interrupt may return.
IrqResults == {"RTDM_IRQ_NONE", "RTDM_IRQ_HANDLED"}

\* Line 185 taking every interrupt as the device's.
IrqHandled_any(ret) == TRUE

\* Line 185.
IrqHandled(ret) == ret = "RTDM_IRQ_HANDLED"

\* Lines 183-186: the line fires, the handler asks the driver's interrupt
\* operation and, on RTDM_IRQ_HANDLED, enters udd_notify_event. The line
\* does not fire again while its handler runs.
IrqHandlerEnter(res) ==
    /\ irq_bound
    /\ ops.interrupt
    /\ k_pc = "idle"
    /\ n_irq < MaxIrq
    /\ n_irq' = n_irq + 1
    /\ n_handled' = n_handled + (IF res = "RTDM_IRQ_HANDLED" THEN 1 ELSE 0)
    /\ k_res' = res
    /\ IF IrqHandled(res)
       THEN /\ RaiseEnter("irq")
            /\ k_pc' = "notify"
       ELSE /\ k_pc' = "ret"
            /\ UNCHANGED <<event, n_raise, r_own, r_pc>>
    /\ UNCHANGED <<descVars, mapVars, h_sel, k_ret, histVars, resVars, pulse, pending, signfy,
                   regVars, handleVars, r_pid, auxVars>>

\* Line 188, once udd_notify_event (if called) has returned.
IrqHandlerReturn ==
    /\ \/ k_pc = "ret"
       \/ k_pc = "notify" /\ r_pc["irq"] = "idle"
    /\ k_ret' = k_res
    /\ k_pc' = "idle"
    /\ UNCHANGED <<descVars, mapVars, h_sel, k_res, n_irq, n_handled, histVars, resVars,
                   bridgeVars, regVars, handleVars, raiseVars, auxVars>>

(***************************************************************************)
(* udd_ioctl_rt (60-106).                                                  *)
(***************************************************************************)
\* Lines 66-73: the driver's ioctl hook, when set, runs first and any
\* result of it but -ENOSYS is the result of the ioctl; ret is what line 75
\* is reached with (0 when there is no hook).
HookOutcomes ==
    IF ops.ioctl
    THEN {[handled |-> r # ENOSYS, ret |-> r] : r \in {ENOSYS, 0, EINVAL}}
    ELSE {[handled |-> FALSE, ret |-> 0]}

\* The outcome after which the built-in requests run: no hook, or a hook
\* that answered -ENOSYS.
Fallthrough == CHOOSE hk \in HookOutcomes : ~hk.handled

\* Line 83 taking only a negative pid as "none".
TargetNone_negative(pid) == pid < 0

\* Line 83.
TargetNone(pid) == pid <= 0

\* Line 86 with the upper bound forgotten.
SigValid_nomax(sig) == sig >= SIGRTMIN

\* Line 86.
SigValid(sig) == sig >= SIGRTMIN /\ sig <= SIGRTMAX

\* The ioctl returns ret.
IoctlReturn(h, ret) ==
    /\ h_pc' = [h_pc EXCEPT ![h] = "idle"]
    /\ h_ret' = [h_ret EXCEPT ![h] = ret]
    /\ io_arg' = [io_arg EXCEPT ![h] = [pid |-> 0, sig |-> 0]]

\* Lines 68-89, request UDD_RTIOC_IRQSIG: the hook, the copy of the argument
\* (which fails on an unreadable one), the checks. Line 84 is a single store;
\* the structure assignment of line 90 is left to IoctlSigStore.
IoctlSig(h, pid, sig, copied, hk) ==
    /\ h_open[h]
    /\ h_pc[h] = "idle"
    /\ hk \in HookOutcomes
    /\ IF hk.handled
       THEN IoctlReturn(h, hk.ret) /\ UNCHANGED signfy
       ELSE IF ~copied
       THEN IoctlReturn(h, EFAULT) /\ UNCHANGED signfy
       ELSE IF TargetNone(pid)
       THEN /\ signfy' = [signfy EXCEPT !.pid = -1]
            /\ IoctlReturn(h, 0)
       ELSE IF ~SigValid(sig)
       THEN IoctlReturn(h, EINVAL) /\ UNCHANGED signfy
       ELSE IF ~ThreadFound(pid)
       THEN IoctlReturn(h, EINVAL) /\ UNCHANGED signfy
       ELSE /\ h_pc' = [h_pc EXCEPT ![h] = "io_store"]
            /\ h_ret' = [h_ret EXCEPT ![h] = 0]
            /\ io_arg' = [io_arg EXCEPT ![h] = [pid |-> pid, sig |-> sig]]
            /\ UNCHANGED signfy
    /\ UNCHANGED <<descVars, mapVars, h_sel, irqVars, histVars, resVars, pulse, pending, event, regVars, h_open, h_count,
                   h_last, raiseVars, m_open, m_ret, thr_alive, sigs, work, line_call>>

\* Lines 90-105: ur->signfy = signfy copies two members with no lock held,
\* in either order; then the ioctl returns the 0 the copy-in left in ret.
IoctlSigStore(h) ==
    /\ \/ /\ h_pc[h] \in {"io_store", "io_pid"}
          /\ signfy' = [signfy EXCEPT !.pid = io_arg[h].pid]
          /\ IF h_pc[h] = "io_store"
             THEN /\ h_pc' = [h_pc EXCEPT ![h] = "io_sig"]
                  /\ UNCHANGED <<h_ret, io_arg>>
             ELSE IoctlReturn(h, 0)
       \/ /\ h_pc[h] \in {"io_store", "io_sig"}
          /\ signfy' = [signfy EXCEPT !.sig = io_arg[h].sig]
          /\ IF h_pc[h] = "io_store"
             THEN /\ h_pc' = [h_pc EXCEPT ![h] = "io_pid"]
                  /\ UNCHANGED <<h_ret, io_arg>>
             ELSE IoctlReturn(h, 0)
    /\ UNCHANGED <<descVars, mapVars, h_sel, irqVars, histVars, resVars, pulse, pending, event, regVars, h_open, h_count,
                   h_last, raiseVars, m_open, m_ret, thr_alive, sigs, work, line_call>>

(***************************************************************************)
(* Deferred line switch (422-473) and the requests that post it: the       *)
(* UDD_RTIOC_IRQEN / UDD_RTIOC_IRQDIS ioctls (93-102), udd_write_rt.       *)
(***************************************************************************)
\* ipipe_post_work_root(&switchwork, work): the descriptor is queued for the
\* root stage; it is dropped when the queue is full. It never waits.
ipipe_post_work_root(q, rq) == IF Len(q) < MaxWork THEN Append(q, rq) ELSE q

\* Lines 93-102 going on to the built-in request whatever the hook said.
udd_ioctl_irq_nohook(hk) ==
    IF irq = UDD_IRQ_NONE THEN [ret |-> EIO, post |-> FALSE]
    ELSE [ret |-> hk.ret, post |-> TRUE]

\* Lines 93-102 after the hook: the value returned and whether a request
\* is posted. ret is never assigned in these cases.
udd_ioctl_irq(hk) ==
    IF hk.handled THEN [ret |-> hk.ret, post |-> FALSE]
    ELSE IF irq = UDD_IRQ_NONE THEN [ret |-> EIO, post |-> FALSE]
    ELSE [ret |-> hk.ret, post |-> TRUE]

\* udd_post_irq_enable / udd_post_irq_disable (463-473), when called.
PostSwitch(h, post, enable) ==
    /\ post => Len(asked) < MaxPost
    /\ work' = IF post
               THEN [work EXCEPT ![CpuOf(h)] =
                        ipipe_post_work_root(@, switch_irq_line(irq, enable))]
               ELSE work
    /\ asked' = IF post
                THEN Append(asked, [cpu |-> CpuOf(h), irq |-> irq, enabled |-> enable])
                ELSE asked

\* udd_ioctl_rt with request UDD_RTIOC_IRQEN (enable) or UDD_RTIOC_IRQDIS.
IoctlIrq(h, enable, hk) ==
    /\ h_open[h]
    /\ h_pc[h] = "idle"
    /\ hk \in HookOutcomes
    /\ PostSwitch(h, udd_ioctl_irq(hk).post, enable)
    /\ h_ret' = [h_ret EXCEPT ![h] = udd_ioctl_irq(hk).ret]
    /\ UNCHANGED <<descVars, mapVars, h_sel, irqVars, ran, resVars, bridgeVars, regVars, h_open, h_count, h_pc, h_last,
                   raiseVars, m_open, m_ret, thr_alive, sigs, line_call, io_arg>>

\* Line 155 taking only the word 1 as "enable".
WriteEnable_one(val) == val = 1

\* Line 155: val ? UDD_RTIOC_IRQEN : UDD_RTIOC_IRQDIS.
WriteEnable(val) == val # 0

\* udd_write_rt (142-158): the length check, the copy of the word, then the
\* ioctl; ret ?: len.
Write(h, len, val, copied, hk) ==
    /\ h_open[h]
    /\ h_pc[h] = "idle"
    /\ hk \in HookOutcomes
    /\ IF len # SizeofCount
       THEN /\ h_ret' = [h_ret EXCEPT ![h] = EINVAL]
            /\ UNCHANGED <<work, asked>>
       ELSE IF ~copied
       THEN /\ h_ret' = [h_ret EXCEPT ![h] = EFAULT]
            /\ UNCHANGED <<work, asked>>
       ELSE /\ PostSwitch(h, udd_ioctl_irq(hk).post, WriteEnable(val))
            /\ h_ret' = [h_ret EXCEPT ![h] = IF udd_ioctl_irq(hk).ret # 0
                                              THEN udd_ioctl_irq(hk).ret ELSE len]
    /\ UNCHANGED <<descVars, mapVars, h_sel, irqVars, ran, resVars, bridgeVars, regVars, h_open, h_count, h_pc, h_last,
                   raiseVars, m_open, m_ret, thr_alive, sigs, line_call, io_arg>>

\* lostage_irqswitch_line (428-441), run by the root stage of processor c
\* on its oldest request: ipipe_enable_irq(rq->irq) or
\* ipipe_disable_irq(rq->irq).
LostageRun(c) ==
    /\ work[c] # << >>
    /\ line_call' = Head(work[c])
    /\ work' = [work EXCEPT ![c] = Tail(@)]
    /\ ran' = Append(ran, [cpu |-> c, irq |-> Head(work[c]).irq,
                           enabled |-> Head(work[c]).enabled])
    /\ UNCHANGED <<descVars, mapVars, h_sel, irqVars, asked, resVars, bridgeVars, regVars, handleVars, raiseVars,
                   m_open, m_ret, thr_alive, sigs, io_arg>>

(***************************************************************************)
(* An Active device: the state a successful udd_register_device leaves.    *)
(***************************************************************************)
RegisteredLog ==
    (IF nr_maps > 0 THEN <<"kasformat", "mapper_register">> ELSE << >>)
    \o <<"event_init">>
    \o (IF ConcreteIrq THEN <<"irq_request">> ELSE << >>)
    \o <<"dev_register">>

ActiveState ==
    /\ core_enabled = TRUE
    /\ irq # UDD_IRQ_NONE => ops.interrupt
    /\ ValidateFrom(mem_regions, 0, 0).ret = 0
    /\ nr_maps = ValidateFrom(mem_regions, 0, 0).nr
    /\ mapper_name = (IF nr_maps > 0 THEN MapperNameOf(device_name) ELSE NULL)
    /\ name_live = (nr_maps > 0)
    /\ name_leaked = FALSE
    /\ mapper_reg = (nr_maps > 0)
    /\ irq_bound = ConcreteIrq
    /\ dev_reg = TRUE
    /\ pulse = "live"
    /\ pending = FALSE
    /\ event = 0
    /\ signfy = [pid |-> -1, sig |-> 0]
    /\ active = TRUE
    /\ reg_pc = "idle"
    /\ reg_op = "register"
    /\ reg_ret = 0
    /\ poll_delay = 0
    /\ calls = RegisteredLog

\* Devices without regions, with each kind of interrupt line.
Init ==
    /\ irq \in {UDD_IRQ_NONE, UDD_IRQ_CUSTOM, IrqLine}
    /\ ops = [open |-> FALSE, ioctl |-> FALSE, mmap |-> FALSE, interrupt |-> TRUE]
    /\ mem_regions = [n \in Slots |-> NoRegion]
    /\ device_name = "foo"
    /\ ActiveState
    /\ HandlesClosed

Next ==
    \/ \E h \in Handles : Open(h)
    \/ \E h \in Handles : Close(h)
    \/ \E h \in Handles : ReadCall(h, SizeofCount)
    \/ \E h \in Handles : ReadCheck(h)
    \/ \E h \in Handles : ReadWait(h)
    \/ \E h \in Handles : ReadWoken(h)
    \/ \E h \in Handles : ReadInterrupted(h)
    \/ \E h \in Handles : ReadFetch(h)
    \/ \E r \in Raisers : RaiseInc(r)
    \/ \E r \in Raisers : RaiseSignal(r)
    \/ \E r \in Raisers : RaiseNotify(r)

Spec == Init /\ [][Next]_vars

(***************************************************************************)
(* Mapper endpoint: mapper_open (191-216), mapper_close (218-221).         *)
(***************************************************************************)
\* mapper_open without the test of line 212.
MapperOpen_nosparse(minor) ==
    /\ mapper_reg
    /\ IF minor < 0 \/ minor >= UDD_NR_MAPS
       THEN m_ret' = EIO /\ UNCHANGED m_open
       ELSE m_ret' = 0 /\ m_open' = m_open \cup {minor}
    /\ UNCHANGED <<descVars, mapVars, h_sel, irqVars, histVars, resVars, bridgeVars, regVars,
                   handleVars, raiseVars, thr_alive, sigs, work, line_call, io_arg>>

\* mapper_open (191-216): the minor of the fd is the index of the region.
MapperOpen(minor) ==
    /\ mapper_reg
    /\ IF minor < 0 \/ minor >= UDD_NR_MAPS
       THEN m_ret' = EIO /\ UNCHANGED m_open
       ELSE IF mem_regions[minor].type = "UDD_MEM_NONE"
       THEN m_ret' = EIO /\ UNCHANGED m_open
       ELSE m_ret' = 0 /\ m_open' = m_open \cup {minor}
    /\ UNCHANGED <<descVars, mapVars, h_sel, irqVars, histVars, resVars, bridgeVars, regVars, handleVars, raiseVars,
                   thr_alive, sigs, work, line_call, io_arg>>

MapperClose(minor) ==
    /\ minor \in m_open
    /\ m_open' = m_open \ {minor}
    /\ UNCHANGED <<descVars, mapVars, h_sel, irqVars, histVars, resVars, bridgeVars, regVars, handleVars, raiseVars,
                   m_ret, thr_alive, sigs, work, line_call, io_arg>>

(***************************************************************************)
(* Mapper endpoint: mapper_mmap (223-258).                                 *)
(***************************************************************************)
\* vma->vm_end - vma->vm_start of the requests made.
MapLens == {4096, 8192}

\* Lines 243-255 with the helpers of LOGICAL and VIRTUAL exchanged.
MmapStrategy_swapped(type) ==
    CASE type = "UDD_MEM_PHYS" -> "rtdm_mmap_iomem"
      [] type = "UDD_MEM_LOGICAL" -> "rtdm_mmap_vmem"
      [] type = "UDD_MEM_VIRTUAL" -> "rtdm_mmap_kmem"
      [] OTHER -> "none"

\* Lines 243-255: the helper the switch over rn->type calls; "none" is the
\* default case, which calls nothing.
MmapStrategy(type) ==
    CASE type = "UDD_MEM_PHYS" -> "rtdm_mmap_iomem"
      [] type = "UDD_MEM_LOGICAL" -> "rtdm_mmap_kmem"
      [] type = "UDD_MEM_VIRTUAL" -> "rtdm_mmap_vmem"
      [] OTHER -> "none"

\* The return values of what does the mapping: the driver's mmap handler
\* and the RTDM helpers succeed or fail; the default case is -EINVAL.
MmapResults(via) ==
    IF via = "none" THEN {EINVAL}
    ELSE IF via = "driver" THEN {0, EINVAL}
    ELSE {0, EAGAIN}

\* mapper_mmap (223-258) on the fd opened on minor, for a vma of len bytes.
MapperMmap(minor, len) ==
    /\ mapper_reg
    /\ minor \in m_open
    /\ LET rn == mem_regions[minor]
           via == IF ops.mmap THEN "driver"
                  ELSE IF rn.len < len THEN "none"
                  ELSE MmapStrategy(rn.type)
           addr == IF via \in {"driver", "none"} THEN 0 ELSE rn.addr
       IN \E ret \in MmapResults(via) :
             mm_last' = [minor |-> minor, len |-> len, via |-> via, addr |-> addr, ret |-> ret]
    /\ UNCHANGED <<descVars, h_sel, irqVars, histVars, resVars, bridgeVars, regVars,
                   handleVars, raiseVars, auxVars>>

(***************************************************************************)
(* An Active device with any array of valid regions, with or without a     *)
(* driver mmap handler, whose mapper device is opened and mapped.          *)
(***************************************************************************)
ValidRegions ==
    { rn \in RegionChoices : check_memregion(rn) = 0 }

InitMap ==
    /\ irq = UDD_IRQ_NONE
    /\ ops \in [open : {FALSE}, ioctl : {FALSE}, mmap : BOOLEAN, interrupt : {FALSE}]
    /\ mem_regions \in [Slots -> ValidRegions]
    /\ device_name = "foo"
    /\ ActiveState
    /\ HandlesClosed

NextMap ==
    \/ \E minor \in -1 .. UDD_NR_MAPS : MapperOpen(minor)
    \/ \E minor \in Slots : MapperClose(minor)
    \/ \E minor \in Slots, len \in MapLens : MapperMmap(minor, len)

SpecMap == InitMap /\ [][NextMap]_vars

(***************************************************************************)
(* An Active device with a single handle, a notification target that may   *)
(* be set, cleared and may exit, and reads of any length.                  *)
(***************************************************************************)
NextOne ==
    \/ Open("h1")
    \/ Close("h1")
    \/ \E len \in {SizeofCount, 2 * SizeofCount} : ReadCall("h1", len)
    \/ ReadCheck("h1")
    \/ ReadWait("h1")
    \/ ReadWoken("h1")
    \/ ReadInterrupted("h1")
    \/ ReadFetch("h1")
    \/ \E r \in Raisers : RaiseInc(r)
    \/ \E r \in Raisers : RaiseSignal(r)
    \/ \E r \in Raisers : RaiseNotify(r)
    \/ \E r \in Raisers : RaiseSigqueue(r)
    \/ \E pid \in {0, TargetPid}, hk \in HookOutcomes :
          IoctlSig("h1", pid, SIGRTMIN, TRUE, hk)
    \/ IoctlSigStore("h1")
    \/ ThreadExit

SpecOne == Init /\ [][NextOne]_vars

(***************************************************************************)
(* An Active device, with or without a region, being unregistered while a  *)
(* handle reads, the interrupt fires and the mapper is opened.             *)
(***************************************************************************)
InitDown ==
    /\ irq \in {UDD_IRQ_NONE, UDD_IRQ_CUSTOM, IrqLine}
    /\ ops = [open |-> FALSE, ioctl |-> FALSE, mmap |-> FALSE, interrupt |-> TRUE]
    /\ mem_regions \in { [n \in Slots |-> NoRegion],
                         [n \in Slots |-> IF n = 0 THEN Region("UDD_MEM_PHYS", "r", 4096, 4096)
                                          ELSE NoRegion] }
    /\ device_name = "foo"
    /\ ActiveState
    /\ HandlesClosed

NextDown ==
    \/ Open("h1")
    \/ Close("h1")
    \/ ReadCall("h1", SizeofCount)
    \/ ReadCheck("h1")
    \/ ReadWait("h1")
    \/ ReadWoken("h1")
    \/ ReadRemoved("h1")
    \/ ReadInterrupted("h1")
    \/ ReadFetch("h1")
    \/ RaiseInc("irq")
    \/ RaiseSignal("irq")
    \/ RaiseNotify("irq")
    \/ MapperOpen(0)
    \/ MapperClose(0)
    \/ UnregisterCall
    \/ UnregisterEvent
    \/ UnregisterIrq
    \/ UnregisterMapper
    \/ UnregisterName
    \/ UnregisterDev

SpecDown == InitDown /\ [][NextDown]_vars

(***************************************************************************)
(* An Active device whose notification target is set and cleared through   *)
(* the ioctl, with or without a driver ioctl hook, while the driver raises *)
(* events and the target thread may exit.                                  *)
(***************************************************************************)
\* The (pid, sig) arguments user space passes: two valid targets, two
\* requests to disable with an invalid and a valid signal number, a signal
\* number above and one below the real-time range, a pid without thread.
SigArgs ==
    { [pid |-> TargetPid, sig |-> SIGRTMIN],
      [pid |-> CallerPid, sig |-> SIGRTMAX],
      [pid |-> 0, sig |-> SIGRTMIN - 1],
      [pid |-> -1, sig |-> SIGRTMAX],
      [pid |-> TargetPid, sig |-> SIGRTMAX + 1],
      [pid |-> CallerPid, sig |-> SIGRTMIN - 1],
      [pid |-> NoPid, sig |-> SIGRTMIN] }

InitSig ==
    /\ irq \in {UDD_IRQ_CUSTOM, IrqLine}
    /\ ops \in [open : {FALSE}, ioctl : BOOLEAN, mmap : {FALSE}, interrupt : {TRUE}]
    /\ mem_regions = [n \in Slots |-> NoRegion]
    /\ device_name = "foo"
    /\ ActiveState
    /\ HandlesClosed

NextSig ==
    \/ Open("h1")
    \/ Close("h1")
    \/ \E a \in SigArgs : IoctlSig("h1", a.pid, a.sig, TRUE, Fallthrough)
    \/ \E copied \in BOOLEAN, hk \in HookOutcomes : IoctlSig("h1", 0, 0, copied, hk)
    \/ IoctlSigStore("h1")
    \/ RaiseInc("drv")
    \/ RaiseSignal("drv")
    \/ RaiseNotify("drv")
    \/ RaiseSigqueue("drv")
    \/ ThreadExit

SpecSig == InitSig /\ [][NextSig]_vars

(***************************************************************************)
(* An Active device, with each kind of interrupt line and with or without  *)
(* a driver ioctl hook, whose line is switched by write and by ioctl.      *)
(***************************************************************************)
InitLine ==
    /\ irq \in {UDD_IRQ_NONE, UDD_IRQ_CUSTOM, IrqLine}
    /\ ops \in [open : {FALSE}, ioctl : BOOLEAN, mmap : {FALSE}, interrupt : {TRUE}]
    /\ mem_regions = [n \in Slots |-> NoRegion]
    /\ device_name = "foo"
    /\ ActiveState
    /\ HandlesClosed

NextLine ==
    \/ Open("h1")
    \/ Close("h1")
    \/ \E len \in {SizeofCount, 2 * SizeofCount}, val \in {0, 1, 2},
          copied \in BOOLEAN, hk \in HookOutcomes : Write("h1", len, val, copied, hk)
    \/ \E enable \in BOOLEAN, hk \in HookOutcomes : IoctlIrq("h1", enable, hk)
    \/ LostageRun(CpuOf("h1"))

SpecLine == InitLine /\ [][NextLine]_vars

(***************************************************************************)
(* udd_select (160-171) and an Active device whose handle is selected on   *)
(* and read while the driver raises events.                                *)
(***************************************************************************)
\* rtdm_event_select(&ur->pulse, selector, type, index): the selector is
\* bound to the event, or the binding cannot be allocated.
rtdm_event_select == {0, ENOMEM}

\* udd_select without the test of line 166.
Select_nocheck(h) ==
    /\ h_open[h]
    /\ h_pc[h] = "idle"
    /\ \E ret \in rtdm_event_select :
          /\ h_ret' = [h_ret EXCEPT ![h] = ret]
          /\ h_sel' = [h_sel EXCEPT ![h] = (@ \/ ret = 0)]
    /\ UNCHANGED <<descVars, mapVars, irqVars, histVars, resVars, bridgeVars, regVars,
                   h_open, h_count, h_pc, h_last, raiseVars, auxVars>>

\* udd_select (160-171).
Select(h) ==
    /\ h_open[h]
    /\ h_pc[h] = "idle"
    /\ IF irq = UDD_IRQ_NONE
       THEN /\ h_ret' = [h_ret EXCEPT ![h] = EIO]
            /\ UNCHANGED h_sel
       ELSE \E ret \in rtdm_event_select :
               /\ h_ret' = [h_ret EXCEPT ![h] = ret]
               /\ h_sel' = [h_sel EXCEPT ![h] = (@ \/ ret = 0)]
    /\ UNCHANGED <<descVars, mapVars, irqVars, histVars, resVars, bridgeVars, regVars,
                   h_open, h_count, h_pc, h_last, raiseVars, auxVars>>

\* What a selector bound to ur->pulse reports for the fd: read-ready while
\* the event is pending.
SelectReady(h) == h_sel[h] /\ pending

NextSel ==
    \/ Open("h1")
    \/ Close("h1")
    \/ Select("h1")
    \/ ReadCall("h1", SizeofCount)
    \/ ReadCheck("h1")
    \/ ReadWait("h1")
    \/ ReadWoken("h1")
    \/ ReadInterrupted("h1")
    \/ ReadFetch("h1")
    \/ RaiseInc("drv")
    \/ RaiseSignal("drv")
    \/ RaiseNotify("drv")

SpecSel == Init /\ [][NextSel]_vars

(***************************************************************************)
(* An Active device, with each kind of interrupt line and with or without  *)
(* a driver ioctl hook, that receives each of the three built-in requests. *)
(***************************************************************************)
\* A valid target, a request to disable, a signal number out of range.
CtlArgs ==
    { [pid |-> TargetPid, sig |-> SIGRTMIN],
      [pid |-> 0, sig |-> SIGRTMIN],
      [pid |-> CallerPid, sig |-> SIGRTMAX + 1] }

NextCtl ==
    \/ Open("h1")
    \/ Close("h1")
    \/ \E a \in CtlArgs, hk \in HookOutcomes : IoctlSig("h1", a.pid, a.sig, TRUE, hk)
    \/ IoctlSigStore("h1")
    \/ \E val \in {0, 1}, hk \in HookOutcomes : Write("h1", SizeofCount, val, TRUE, hk)
    \/ \E enable \in BOOLEAN, hk \in HookOutcomes : IoctlIrq("h1", enable, hk)
    \/ LostageRun(CpuOf("h1"))

SpecCtl == InitLine /\ [][NextCtl]_vars

(***************************************************************************)
(* An Active device whose line is switched by two threads, each with its   *)
(* own handle and on its own processor, while each processor's root stage *)
(* runs the requests posted on it.                                         *)
(***************************************************************************)
NextQueue ==
    \/ \E h \in Handles : Open(h)
    \/ \E h \in Handles, val \in {0, 1}, hk \in HookOutcomes :
          Write(h, SizeofCount, val, TRUE, hk)
    \/ \E h \in Handles, enable \in BOOLEAN, hk \in HookOutcomes : IoctlIrq(h, enable, hk)
    \/ \E c \in Cpus : LostageRun(c)

SpecQueue == Init /\ [][NextQueue]_vars

(***************************************************************************)
(* An Active device on a concrete line whose interrupts the driver reports *)
(* as handled or not, with one handle reading.                             *)
(***************************************************************************)
InitIrq ==
    /\ irq = IrqLine
    /\ ops = [open |-> FALSE, ioctl |-> FALSE, mmap |-> FALSE, interrupt |-> TRUE]
    /\ mem_regions = [n \in Slots |-> NoRegion]
    /\ device_name = "foo"
    /\ ActiveState
    /\ HandlesClosed

NextIrq ==
    \/ Open("h1")
    \/ Close("h1")
    \/ ReadCall("h1", SizeofCount)
    \/ ReadCheck("h1")
    \/ ReadWait("h1")
    \/ ReadWoken("h1")
    \/ ReadFetch("h1")
    \/ \E res \in IrqResults : IrqHandlerEnter(res)
    \/ RaiseSignal("irq")
    \/ RaiseNotify("irq")
    \/ IrqHandlerReturn

SpecIrq == InitIrq /\ [][NextIrq]_vars

(***************************************************************************)
(* An Active device on which the driver calls udd_register_device a second *)
(* time while it keeps raising events.                                     *)
(***************************************************************************)
NextBusy ==
    \/ RegisterAgain
    \/ RegisterMapper
    \/ RegisterEvent
    \/ RegisterIrq
    \/ RegisterDev
    \/ RegisterFailDev
    \/ RegisterFailIrq
    \/ RaiseInc("drv")
    \/ RaiseSignal("drv")
    \/ RaiseNotify("drv")

SpecBusy == InitDown /\ [][NextBusy]_vars

(***************************************************************************)
(* An Active device whose driver raises events often enough for the 32-bit *)
(* counter to wrap, with one handle opened before the first event and      *)
(* making its first read.                                                  *)
(***************************************************************************)
\* One call more than the counter has values.
MaxWrap == U32 + 1

\* udd_notify_event (260-272) run from entry to return by a caller that
\* finds no notification target at line 268.
udd_notify_event(r) ==
    /\ MayRaise(r)
    /\ r_pc[r] = "idle"
    /\ signfy.pid <= 0
    /\ n_raise < MaxWrap
    /\ event' = atomic_inc(event)
    /\ n_raise' = n_raise + 1
    /\ rtdm_event_signal
    /\ UNCHANGED <<descVars, mapVars, h_sel, irqVars, histVars, resVars, pulse, signfy, regVars, h_open, h_count,
                   h_ret, h_last, r_pc, r_own, r_pid, auxVars>>

InitWrap ==
    /\ irq \in {UDD_IRQ_CUSTOM, IrqLine}
    /\ ops = [open |-> FALSE, ioctl |-> FALSE, mmap |-> FALSE, interrupt |-> TRUE]
    /\ mem_regions = [n \in Slots |-> NoRegion]
    /\ device_name = "foo"
    /\ ActiveState
    /\ HandlesClosed

\* The handle is opened while the counter is still 0 and calls read() once.
NextWrap ==
    \/ n_raise = 0 /\ Open("h1")
    \/ h_ret["h1"] = 0 /\ ReadCall("h1", SizeofCount)
    \/ ReadCheck("h1")
    \/ ReadWait("h1")
    \/ ReadWoken("h1")
    \/ ReadInterrupted("h1")
    \/ ReadFetch("h1")
    \/ udd_notify_event("drv")

SpecWrap == InitWrap /\ [][NextWrap]_vars

(***************************************************************************)
(* An Active device, with or without a driver open hook, whose handles are *)
(* opened, read and closed while the driver raises events; the second      *)
(* handle is opened only once the counter has left 0.                      *)
(***************************************************************************)
InitOpen ==
    /\ irq = UDD_IRQ_CUSTOM
    /\ ops \in [open : BOOLEAN, ioctl : {FALSE}, mmap : {FALSE}, interrupt : {TRUE}]
    /\ mem_regions = [n \in Slots |-> NoRegion]
    /\ device_name = "foo"
    /\ ActiveState
    /\ HandlesClosed

NextOpen ==
    \/ Open("h1")
    \/ event # 0 /\ Open("h2")
    \/ \E h \in Handles : Close(h)
    \/ \E h \in Handles : ReadCall(h, SizeofCount)
    \/ \E h \in Handles : ReadCheck(h)
    \/ \E h \in Handles : ReadWait(h)
    \/ \E h \in Handles : ReadWoken(h)
    \/ \E h \in Handles : ReadInterrupted(h)
    \/ \E h \in Handles : ReadFetch(h)
    \/ RaiseInc("drv")
    \/ RaiseSignal("drv")
    \/ RaiseNotify("drv")

SpecOpen == InitOpen /\ [][NextOpen]_vars

(***************************************************************************)
(* An Active device on a concrete line with two handles: the first one     *)
(* reads, the second one writes, selects and issues the ioctls, while the  *)
(* driver raises events.                                                   *)
(***************************************************************************)
NextFrame ==
    \/ \E h \in Handles : Open(h)
    \/ \E h \in Handles : Close(h)
    \/ ReadCall("h1", SizeofCount)
    \/ ReadCheck("h1")
    \/ ReadWait("h1")
    \/ ReadWoken("h1")
    \/ ReadInterrupted("h1")
    \/ ReadFetch("h1")
    \/ Write("h2", SizeofCount, 1, TRUE, Fallthrough)
    \/ Select("h2")
    \/ IoctlSig("h2", TargetPid, SIGRTMIN, TRUE, Fallthrough)
    \/ IoctlSigStore("h2")
    \/ IoctlIrq("h2", TRUE, Fallthrough)
    \/ RaiseInc("drv")
    \/ RaiseSignal("drv")
    \/ RaiseNotify("drv")
    \/ RaiseSigqueue("drv")

SpecFrame == InitIrq /\ [][NextFrame]_vars

(***************************************************************************)
(* Properties.                                                             *)
(***************************************************************************)
\* A udd_register_device call has returned ret.
RegisterReturned == reg_op = "register" /\ reg_pc = "idle"
\* A udd_unregister_device call has returned.
UnregisterReturned == reg_op = "unregister" /\ reg_pc = "idle"

InCalls(c) == \E i \in 1 .. Len(calls) : calls[i] = c

\* Every raise() that incremented the counter has also signalled the event.
RaisesSignalled == \A r \in Raisers : r_pc[r] # "signal"

\* C1: broadcast wake. A handle asleep in the wait of read() returns only
\* on a further signal, so once every raise() has signalled no handle may
\* be left asleep with a last observed count that differs from the shared
\* counter, whatever the interleaving of the checks, the waits and the raise.
C1_BroadcastWake ==
    RaisesSignalled =>
        \A h \in Handles : h_pc[h] = "rd_sleep" => event = h_count[h]

\* C2: with a single handle, read() is asleep only while the counter equals
\* the handle's count and leaves the loop only when it differs; a
\* successful read returns the current counter, which is the number of
\* raise_event calls so far (1 after the first, 2 after the second), and
\* stores it as the handle's last observed count.
C2_State ==
    /\ (RaisesSignalled /\ h_pc["h1"] = "rd_sleep") => event = h_count["h1"]
    /\ h_pc["h1"] = "rd_fetch" => event # h_count["h1"]
    /\ h_ret["h1"] = SizeofCount =>
          /\ h_last["h1"] = h_count["h1"]
          /\ h_last["h1"] \in 1 .. n_raise

C2_Step ==
    (h_pc["h1"] = "rd_fetch" /\ h_ret'["h1"] = SizeofCount) =>
        /\ h_last'["h1"] = n_raise
        /\ h_count'["h1"] = h_last'["h1"]
        /\ h_last'["h1"] # h_count["h1"]

C2_ReadReturnsEachEvent == []C2_State /\ [][C2_Step]_vars

\* The handle has returned 1 and is about to return 2.
C2_Witness ==
    h_pc["h1"] = "rd_fetch" /\ h_last["h1"] = 1 /\ h_count["h1"] = 1 /\ event = 2

\* What a register call acquired and what it released, from its calls.
Acquired ==
    (IF InCalls("kasformat") THEN {"name"} ELSE {})
    \cup (IF InCalls("mapper_register") THEN {"mapper"} ELSE {})
    \cup (IF InCalls("irq_request") THEN {"irq"} ELSE {})

Released ==
    (IF InCalls("kfree") THEN {"name"} ELSE {})
    \cup (IF InCalls("mapper_unregister") THEN {"mapper"} ELSE {})
    \cup (IF InCalls("irq_free") THEN {"irq"} ELSE {})

\* C3: exact rollback. When register() fails, the resources it released are
\* exactly those it had acquired in that call.
C3_ExactRollback ==
    (RegisterReturned /\ reg_ret # 0) => Released = Acquired

\* The description declares a line without an interrupt operation.
MissingHandler == irq # UDD_IRQ_NONE /\ ~ops.interrupt
\* Some non-NONE region has no name, a zero address or a zero length.
InvalidRegion ==
    \E n \in Slots :
        /\ mem_regions[n].type # "UDD_MEM_NONE"
        /\ \/ mem_regions[n].name = NULL
           \/ mem_regions[n].addr = 0
           \/ mem_regions[n].len = 0

\* C4: a description with a missing handler or an invalid region never gets
\* any sub-resource: register() fails on it having called nothing, and no
\* mapper endpoint, interrupt binding, control endpoint or derived name exists.
C4_ValidationBeforeAcquisition ==
    (MissingHandler \/ InvalidRegion) =>
        /\ ~mapper_reg /\ ~irq_bound /\ ~dev_reg /\ ~name_live
        /\ pulse = "uninit"
        /\ calls = <<>>
        /\ RegisterReturned => reg_ret # 0

\* register() has rejected a zero-length region that follows a valid one.
C4_Witness ==
    /\ RegisterReturned
    /\ reg_ret = EINVAL
    /\ core_enabled
    /\ ~MissingHandler
    /\ nr_maps > 0
    /\ \E n \in Slots : mem_regions[n].type # "UDD_MEM_NONE" /\ mem_regions[n].len = 0

\* C5: once unregister() has returned on a device that register() had made
\* Active and nobody had opened, nothing of the device is left: no control
\* endpoint, no mapper endpoint, no interrupt binding, no live wait
\* primitive, no derived name, as before register().
C5_RegisterUnregister ==
    UnregisterReturned =>
        /\ ~dev_reg /\ ~mapper_reg /\ ~irq_bound /\ ~name_live
        /\ pulse # "live"
        /\ reg_ret = 0

\* A device with a concrete line and a region went through both calls.
C5_Witness ==
    /\ UnregisterReturned
    /\ ConcreteIrq
    /\ nr_maps > 0
    /\ InCalls("kfree")
    /\ InCalls("irq_free")

\* C6: raise() never blocks: a caller inside udd_notify_event can always
\* take its next step, whatever the reader does, whether or not a signal is
\* pending and whether the notification target is unset, alive or gone.
C6_RaiseNeverBlocks ==
    \A r \in Raisers :
        /\ r_pc[r] = "signal" => ENABLED RaiseSignal(r)
        /\ r_pc[r] = "notify" => ENABLED RaiseNotify(r)
        /\ r_pc[r] = "sigqueue" => ENABLED RaiseSigqueue(r)

\* A raise() has completed although its sigqueue found no target thread,
\* and another one is about to signal while the event is still pending.
C6_Witness ==
    /\ Len(sigs) > 0
    /\ ~sigs[Len(sigs)].ok
    /\ \E r \in Raisers : r_pc[r] = "signal"
    /\ pending

\* C7: the counter equals the number of raise() calls, modulo its width.
C7_CounterCountsRaises == event = n_raise % U32

\* Two raise() calls overlap.
C7_Witness ==
    /\ n_raise = 2
    /\ \A r \in Raisers : r_pc[r] # "idle"

\* C8: on every handle the values of successive successful reads strictly
\* increase, no handle ever observes a value smaller than one observed
\* before (by itself or by another handle), and a read does not leave the
\* loop while the counter still equals the handle's count.
C8_State ==
    \A h \in Handles : h_pc[h] = "rd_fetch" => event # h_count[h]

C8_Step ==
    /\ event' >= event
    /\ \A h \in Handles :
        /\ (h_pc[h] = "rd_fetch" /\ h_ret'[h] = SizeofCount) => h_last'[h] > h_last[h]
        /\ (h_open[h] /\ h_open'[h]) => h_count'[h] >= h_count[h]
        /\ (h_pc[h] = "rd_fetch" /\ h_pc'[h] = "idle") =>
               \A g \in Handles : h_count'[h] >= h_count[g]

C8_ReadsIncrease == []C8_State /\ [][C8_Step]_vars

\* One handle that returned 1 is about to return 2 while the other, which
\* returned 2, is asleep in its next read.
C8_Witness ==
    /\ h_pc["h1"] = "rd_fetch" /\ h_last["h1"] = 1 /\ event = 2
    /\ h_pc["h2"] = "rd_sleep" /\ h_last["h2"] = 2

\* The calls a complete teardown makes, in order.
ExpectedTeardown ==
    <<"event_destroy">>
    \o (IF ConcreteIrq THEN <<"irq_free">> ELSE << >>)
    \o <<"mapper_unregister">>
    \o (IF mapper_name # NULL THEN <<"kfree">> ELSE << >>)
    \o <<"dev_unregister">>

\* C9: every unregister() of an Active device makes all the teardown calls,
\* also when the mapper could not be unregistered, and returns what the
\* unregistration of the control endpoint returned.
C9_TeardownTotal ==
    UnregisterReturned =>
        /\ calls = ExpectedTeardown
        /\ reg_ret = (IF dev_reg THEN EAGAIN ELSE 0)

\* The mapper was busy and stayed registered, the control endpoint was busy
\* too, and unregister() went through all its steps.
C9_Witness ==
    /\ UnregisterReturned
    /\ mapper_reg
    /\ reg_ret = EAGAIN
    /\ ConcreteIrq

\* C10: the wait primitive is not destroyed while a handle is inside the
\* wait of read().
C10_NoDestroyWhileBlocked ==
    pulse = "destroyed" =>
        \A h \in Handles : h_pc[h] \notin {"rd_sleep", "rd_woken", "rd_rmid"}

\* C11: the control endpoint is registered only while the concrete interrupt
\* binding and the mapper endpoint its description calls for are live, and
\* the interrupt binding is live only while the control endpoint is
\* registered; in every state of register(), of its rollback and of
\* unregister().
C11_EndpointsLiveTogether ==
    /\ dev_reg => /\ (ConcreteIrq => irq_bound)
                  /\ (nr_maps > 0 => mapper_reg)
    /\ irq_bound => dev_reg

\* An IRQSIG ioctl is between its checks and the end of its store.
Storing(h) == h_pc[h] \in {"io_store", "io_pid", "io_sig"}

\* C12: an IRQSIG ioctl whose argument carries a pid <= 0 returns 0 and
\* leaves the notification target at none, whatever the signal number and
\* the previous target; a raise() that tests the target while it is none
\* sends no signal.
C12_Step ==
    /\ \A a \in SigArgs :
          (a.pid <= 0 /\ IoctlSig("h1", a.pid, a.sig, TRUE, Fallthrough)) =>
              /\ h_ret'["h1"] = 0
              /\ h_pc'["h1"] = "idle"
              /\ signfy'.pid <= 0
              /\ signfy'.sig = signfy.sig
    /\ \A r \in Raisers :
          (r_pc[r] = "notify" /\ r_pc'[r] # "notify" /\ signfy.pid <= 0) =>
              /\ sigs' = sigs
              /\ r_pc'[r] = "idle"

C12_DisableTarget == [][C12_Step]_vars

\* The target (CallerPid, SIGRTMAX) was set, one raise() signalled it, the
\* target was disabled and the second raise() sent nothing.
C12_Witness ==
    /\ signfy = [pid |-> -1, sig |-> SIGRTMAX]
    /\ h_pc["h1"] = "idle" /\ h_ret["h1"] = 0
    /\ n_raise = 2
    /\ \A r \in Raisers : r_pc[r] = "idle"
    /\ Len(sigs) = 1
    /\ sigs[1].pid = CallerPid /\ sigs[1].val = 1

\* C13: an IRQSIG ioctl with a pid > 0 and a signal number outside
\* SIGRTMIN..SIGRTMAX, or a pid no thread has, returns -EINVAL and leaves the
\* stored target as it was; a (pid, sig) pair is being stored only when the
\* pid is positive, the signal number in range and the thread was found.
C13_State ==
    Storing("h1") =>
        /\ io_arg["h1"].pid > 0
        /\ io_arg["h1"].sig >= SIGRTMIN /\ io_arg["h1"].sig <= SIGRTMAX
        /\ io_arg["h1"].pid # NoPid

C13_Step ==
    /\ \A a \in SigArgs :
          ( /\ a.pid > 0
            /\ \/ a.sig < SIGRTMIN
               \/ a.sig > SIGRTMAX
               \/ a.pid = NoPid
               \/ (a.pid = TargetPid /\ ~thr_alive)
            /\ IoctlSig("h1", a.pid, a.sig, TRUE, Fallthrough) ) =>
              /\ h_ret'["h1"] = EINVAL
              /\ h_pc'["h1"] = "idle"
              /\ signfy' = signfy
    /\ (~Storing("h1") /\ Storing("h1")') =>
          (io_arg'["h1"].pid = TargetPid => thr_alive)
    /\ (signfy' # signfy /\ ~Storing("h1")) =>
          (signfy'.pid = -1 /\ signfy'.sig = signfy.sig)

C13_InvalidTarget == []C13_State /\ [][C13_Step]_vars

\* The target thread has exited and a call naming it again was refused,
\* leaving the target stored earlier; the device has no ioctl hook.
C13_Witness ==
    /\ ~ops.ioctl
    /\ ~thr_alive
    /\ h_pc["h1"] = "idle" /\ h_ret["h1"] = EINVAL
    /\ signfy = [pid |-> TargetPid, sig |-> SIGRTMIN]

\* C14: the payload of every signal a raise() sends is the counter value
\* that raise's own increment produced, also when raise() calls overlap.
C14_PayloadIsOwnCount ==
    \A i \in 1 .. Len(sigs) : sigs[i].val = sigs[i].own

\* The (pid, sig) pairs a successful IRQSIG ioctl stores.
StoredTargets ==
    { a \in SigArgs : a.pid \in {TargetPid, CallerPid}
                      /\ a.sig >= SIGRTMIN /\ a.sig <= SIGRTMAX }

\* C15: every signal raise() sends goes to a pid > 0 and to a (pid, sig)
\* pair that one successful IRQSIG ioctl stored together.
C15_TargetConsistent ==
    \A i \in 1 .. Len(sigs) :
        /\ sigs[i].pid > 0
        /\ [pid |-> sigs[i].pid, sig |-> sigs[i].sig] \in StoredTargets

\* The handle is inside the loop of udd_read_rt or about to copy out.
Reading(h) == h_pc[h] \in {"rd_check", "rd_wait", "rd_sleep", "rd_woken", "rd_rmid", "rd_fetch"}

\* C16 as stated: on a device without a concrete line (NONE or CUSTOM) no
\* read() gets past its checks: it has failed with NoInterruptLine.
C16_ReadNeedsConcreteLine ==
    ~ConcreteIrq => ~Reading("h1")

\* C16 as amended: read() returns -EINVAL at once whenever len is not
\* sizeof(u32), whatever the line; with the right len it returns -EIO at
\* once exactly when the line is UDD_IRQ_NONE; on UDD_IRQ_CUSTOM, as on a
\* concrete line, it goes on to the wait loop. A failed check leaves the
\* handle's count alone.
C16_State ==
    irq = UDD_IRQ_NONE => ~Reading("h1")

C16_Step ==
    \A len \in {SizeofCount, 2 * SizeofCount} :
        ReadCall("h1", len) =>
            /\ len # SizeofCount =>
                  h_ret'["h1"] = EINVAL /\ h_pc'["h1"] = "idle"
            /\ (len = SizeofCount /\ irq = UDD_IRQ_NONE) =>
                  h_ret'["h1"] = EIO /\ h_pc'["h1"] = "idle"
            /\ (len = SizeofCount /\ irq # UDD_IRQ_NONE) =>
                  h_ret'["h1"] = 0 /\ h_pc'["h1"] = "rd_check"
            /\ h_count' = h_count

C16_ReadChecks == []C16_State /\ [][C16_Step]_vars

\* A read of the right length has been refused on a device without line.
C16_Witness ==
    /\ irq = UDD_IRQ_NONE
    /\ h_open["h1"]
    /\ h_ret["h1"] = EIO

\* C17: when the wait of a sleeping read() is interrupted the read returns
\* -EINTR at once instead of going round the loop; the handle's count, the
\* value it last returned, the counter and the event are as they were, and
\* the sleeping read had consumed no pending signal, so a retried read
\* finds what the interrupted one found.
C17_State ==
    h_pc["h1"] = "rd_sleep" => ~pending

C17_Step ==
    /\ ReadInterrupted("h1") =>
          /\ h_pc'["h1"] = "idle"
          /\ h_ret'["h1"] = EINTR
    /\ (h_pc["h1"] = "rd_sleep" /\ h_pc'["h1"] \notin {"rd_sleep", "rd_woken"}) =>
          /\ h_pc'["h1"] = "idle"
          /\ h_ret'["h1"] = EINTR
          /\ h_count' = h_count
          /\ h_last' = h_last
          /\ UNCHANGED <<event, pending, pulse, signfy>>

C17_InterruptedRead == []C17_State /\ [][C17_Step]_vars

\* The handle read 1, slept in its next read, was interrupted, and a second
\* raise() has happened since: the retried read will return 2.
C17_Witness ==
    /\ h_pc["h1"] = "idle"
    /\ h_ret["h1"] = EINTR
    /\ h_last["h1"] = 1 /\ h_count["h1"] = 1
    /\ event = 2

\* C18: write() returns -EINVAL and posts nothing unless len is
\* sizeof(u32); with that len and a readable word it does what the
\* IRQEN / IRQDIS ioctl does: on a device with a line it posts one request
\* for udd->irq, to enable for any nonzero word and to disable for the word
\* 0, on a device without line it posts nothing and returns -EIO; it returns
\* len where the ioctl returns 0 and the ioctl's result otherwise.
C18_Step ==
    /\ \A len \in {SizeofCount, 2 * SizeofCount}, val \in {0, 1, 2},
          copied \in BOOLEAN, hk \in HookOutcomes :
          Write("h1", len, val, copied, hk) =>
              /\ len # SizeofCount => (h_ret'["h1"] = EINVAL /\ work' = work)
              /\ (len = SizeofCount /\ copied /\ ~hk.handled /\ irq # UDD_IRQ_NONE) =>
                    /\ work'[0] = ipipe_post_work_root(work[0], [irq |-> irq, enabled |-> val > 0])
                    /\ h_ret'["h1"] = (IF hk.ret = 0 THEN len ELSE hk.ret)
              /\ (len = SizeofCount /\ copied /\ ~hk.handled /\ irq = UDD_IRQ_NONE) =>
                    (h_ret'["h1"] = EIO /\ work' = work)
              /\ h_ret'["h1"] >= 0 => h_ret'["h1"] = len
              /\ UNCHANGED <<bridgeVars, h_count, h_pc, line_call>>
    /\ \A enable \in BOOLEAN, hk \in HookOutcomes :
          IoctlIrq("h1", enable, hk) =>
              /\ (~hk.handled /\ irq # UDD_IRQ_NONE) =>
                    /\ work'[0] = ipipe_post_work_root(work[0], [irq |-> irq, enabled |-> enable])
                    /\ h_ret'["h1"] = hk.ret
              /\ (~hk.handled /\ irq = UDD_IRQ_NONE) =>
                    (h_ret'["h1"] = EIO /\ work' = work)

C18_WriteSwitchesLine == [][C18_Step]_vars

\* An enable request has been executed and a write of the word 0 has then
\* posted a disable request and returned len.
C18_Witness ==
    /\ ~ops.ioctl
    /\ line_call = [irq |-> IrqLine, enabled |-> TRUE]
    /\ work[0] = <<[irq |-> IrqLine, enabled |-> FALSE]>>
    /\ h_ret["h1"] = SizeofCount

\* C19: on a device with a concrete line, with or without a driver ioctl
\* hook, a write of the word 0 and a write of the word 1 each return len,
\* not an error, when the hook (if any) leaves the request to the built-in.
C19_Step ==
    \A val \in {0, 1}, hk \in HookOutcomes :
        (ConcreteIrq /\ ~hk.handled /\ Write("h1", SizeofCount, val, TRUE, hk)) =>
            h_ret'["h1"] = SizeofCount

C19_DisableThenEnable == [][C19_Step]_vars

\* C20: a line-switch request is posted, and later executed, only for a
\* concrete line number: never on a device whose line is NONE or CUSTOM.
C20_OnlyConcreteLinePosted ==
    /\ \A c \in Cpus : \A i \in 1 .. Len(work[c]) :
          work[c][i].irq \notin {UDD_IRQ_NONE, UDD_IRQ_CUSTOM}
    /\ line_call.irq # UDD_IRQ_CUSTOM
    /\ ~ConcreteIrq => \A c \in Cpus : work[c] = << >>

\* C21: when the driver's ioctl hook is set and returns anything but
\* -ENOSYS, the ioctl returns that value and runs no built-in: the
\* notification target stays as it was and no line-switch request is made.
\* A step that changes the target or makes a request is one where there is
\* no hook or the hook answered -ENOSYS.
C21_Step ==
    /\ \A hk \in HookOutcomes :
          hk.handled =>
              /\ \A a \in CtlArgs :
                    IoctlSig("h1", a.pid, a.sig, TRUE, hk) =>
                        /\ h_ret'["h1"] = hk.ret
                        /\ h_pc'["h1"] = "idle"
                        /\ UNCHANGED <<signfy, work, asked>>
              /\ \A enable \in BOOLEAN :
                    IoctlIrq("h1", enable, hk) =>
                        /\ h_ret'["h1"] = hk.ret
                        /\ UNCHANGED <<signfy, work, asked>>
    /\ asked' # asked =>
          \/ \E enable \in BOOLEAN : IoctlIrq("h1", enable, Fallthrough)
          \/ \E val \in {0, 1} : Write("h1", SizeofCount, val, TRUE, Fallthrough)
    /\ (signfy' # signfy /\ ~Storing("h1")) =>
          \E a \in CtlArgs : IoctlSig("h1", a.pid, a.sig, TRUE, Fallthrough)

C21_HookPrecedence == [][C21_Step]_vars

\* On a device with a hook, a target was stored and an enable request was
\* run while the hook answered -ENOSYS; the call after these was refused by
\* the hook and left the target and the queue alone.
C21_Witness ==
    /\ ops.ioctl
    /\ h_ret["h1"] = EINVAL
    /\ signfy = [pid |-> TargetPid, sig |-> SIGRTMIN]
    /\ line_call = [irq |-> IrqLine, enabled |-> TRUE]
    /\ Len(asked) = 1
    /\ work[0] = << >>

\* The hook outcome of a device that has no ioctl hook.
NoHook == [handled |-> FALSE, ret |-> 0]

\* C27: after a hook that answers -ENOSYS each built-in request returns
\* what it returns on a device without hook: IRQEN and IRQDIS return 0 on
\* a device with a line, and the write built on them returns len.
C27_Step ==
    \A hk \in HookOutcomes :
        ~hk.handled =>
            /\ \A enable \in BOOLEAN :
                  IoctlIrq("h1", enable, hk) =>
                      h_ret'["h1"] = udd_ioctl_irq(NoHook).ret
            /\ \A val \in {0, 1} :
                  (irq # UDD_IRQ_NONE /\ Write("h1", SizeofCount, val, TRUE, hk)) =>
                      h_ret'["h1"] = SizeofCount

C27_FallthroughSameAsNoHook == [][C27_Step]_vars

\* C22: on every device, mapper_open of a minor that is negative, at or
\* above UDD_NR_MAPS, or the index of a slot of type NONE fails with -EIO
\* and opens nothing; it succeeds exactly when the minor is the index of a
\* non-NONE slot, and the fd then stands for that slot.
C22_State ==
    \A minor \in m_open :
        minor \in Slots /\ mem_regions[minor].type # "UDD_MEM_NONE"

C22_Step ==
    \A minor \in -1 .. UDD_NR_MAPS :
        MapperOpen(minor) =>
            LET valid == /\ minor >= 0
                         /\ minor < UDD_NR_MAPS
                         /\ mem_regions[minor].type # "UDD_MEM_NONE"
            IN /\ valid => (m_ret' = 0 /\ m_open' = m_open \cup {minor})
               /\ ~valid => (m_ret' = EIO /\ m_open' = m_open)

C22_MapperOpen == []C22_State /\ [][C22_Step]_vars

\* A sparse array: slot 0 is NONE and was refused, the last slot is open.
C22_Witness ==
    /\ mem_regions[0].type = "UDD_MEM_NONE"
    /\ m_open = {UDD_NR_MAPS - 1}
    /\ m_ret = EIO

\* A mapper_mmap call has been made.
Mapped == mm_last.minor \in Slots

\* C23: a map request longer than the region of its minor has failed with
\* -EINVAL and nothing was called to establish a mapping; a request that
\* is not longer was not refused for its size.
C23_TooLargeRefused ==
    Mapped =>
        IF mm_last.len > mem_regions[mm_last.minor].len
        THEN mm_last.ret = EINVAL /\ mm_last.via = "none"
        ELSE mm_last.via # "none"

\* C24: a map request is served by the driver's mmap handler, for every
\* region, when the driver has one; otherwise a request that passed the
\* length test is served by rtdm_mmap_iomem for a PHYS region, by
\* rtdm_mmap_kmem for a LOGICAL one and by rtdm_mmap_vmem for a VIRTUAL
\* one, each with the region's address; any other type gives -EINVAL, a
\* case no open fd of the mapper reaches.
C24_MappingStrategy ==
    /\ Mapped =>
          /\ ops.mmap => mm_last.via = "driver"
          /\ (~ops.mmap /\ mm_last.len <= mem_regions[mm_last.minor].len) =>
                /\ mm_last.via = (CASE mem_regions[mm_last.minor].type = "UDD_MEM_PHYS"
                                           -> "rtdm_mmap_iomem"
                                     [] mem_regions[mm_last.minor].type = "UDD_MEM_LOGICAL"
                                           -> "rtdm_mmap_kmem"
                                     [] mem_regions[mm_last.minor].type = "UDD_MEM_VIRTUAL"
                                           -> "rtdm_mmap_vmem")
                /\ mm_last.addr = mem_regions[mm_last.minor].addr
          /\ mm_last.via = "none" => mm_last.ret = EINVAL
    /\ \A type \in MemTypes \ {"UDD_MEM_PHYS", "UDD_MEM_LOGICAL", "UDD_MEM_VIRTUAL"} :
          MmapResults(MmapStrategy(type)) = {EINVAL}

\* On a device without mmap handler whose slot 0 is NONE, a LOGICAL region
\* in the last slot has been mapped whole.
C24_Witness ==
    /\ ~ops.mmap
    /\ mem_regions[0].type = "UDD_MEM_NONE"
    /\ mm_last = [minor |-> UDD_NR_MAPS - 1, len |-> 8192, via |-> "rtdm_mmap_kmem",
                  addr |-> 4096, ret |-> 0]

\* C25: select on a handle of a device whose line is UDD_IRQ_NONE returns
\* -EIO and binds nothing; on any other device it binds the selector to
\* ur->pulse (unless the binding cannot be allocated), and from then on
\* every raise() leaves the handle reported read-ready when it has
\* signalled the event. The handle stops being reported ready only when a
\* wait consumes the pending signal or the handle is closed.
C25_State ==
    irq = UDD_IRQ_NONE => \A h \in Handles : ~h_sel[h]

C25_Step ==
    /\ Select("h1") =>
          /\ irq = UDD_IRQ_NONE => (h_ret'["h1"] = EIO /\ h_sel' = h_sel)
          /\ irq # UDD_IRQ_NONE => h_ret'["h1"] \in {0, ENOMEM}
          /\ (irq # UDD_IRQ_NONE /\ h_ret'["h1"] = 0) => h_sel'["h1"]
          /\ UNCHANGED <<bridgeVars, h_count, h_pc>>
    /\ (h_sel["h1"] /\ r_pc["drv"] = "signal" /\ r_pc'["drv"] # "signal") =>
          SelectReady("h1")'
    /\ (SelectReady("h1") /\ ~SelectReady("h1")') =>
          \/ h_pc["h1"] \in {"rd_wait", "rd_woken"} /\ h_pc'["h1"] = "rd_check"
          \/ ~h_open'["h1"]

C25_SelectReadiness == []C25_State /\ [][C25_Step]_vars

\* On a device with a CUSTOM line a selector is bound, the handle has read
\* the first event, and the second raise() has made it ready again.
C25_Witness ==
    /\ irq = UDD_IRQ_CUSTOM
    /\ h_last["h1"] = 1
    /\ n_raise = 2
    /\ r_pc["drv"] = "idle"
    /\ SelectReady("h1")

\* The requests of a history that were made on processor c, in order.
OnCpu(hist, c) ==
    LET sel == SelectSeq(hist, LAMBDA e : e.cpu = c)
    IN [i \in 1 .. Len(sel) |-> [irq |-> sel[i].irq, enabled |-> sel[i].enabled]]

\* a can be obtained from b by leaving elements out.
RECURSIVE IsSubSeq(_, _)
IsSubSeq(a, b) ==
    IF a = << >> THEN TRUE
    ELSE IF b = << >> THEN FALSE
    ELSE IF Head(a) = Head(b) THEN IsSubSeq(Tail(a), Tail(b))
    ELSE IsSubSeq(a, Tail(b))

\* C26: on each processor the line-switch requests run in the order they
\* were made there and each at most once: the requests run followed by those
\* still queued are the requests made, in order, less those dropped on a
\* full queue, and none is dropped while no more than the queue's capacity
\* were made. When every request was made on one processor and all of them
\* have run, the last call made on the line is the one the last request
\* asked for. Nothing is stated across processors.
C26_FifoPerProcessor ==
    /\ \A c \in Cpus :
          /\ IsSubSeq(OnCpu(ran, c) \o work[c], OnCpu(asked, c))
          /\ Len(OnCpu(asked, c)) <= MaxWork => OnCpu(ran, c) \o work[c] = OnCpu(asked, c)
    /\ \A c \in Cpus :
          (asked # << >> /\ Len(OnCpu(asked, c)) = Len(asked) /\ Len(ran) = Len(asked)) =>
              /\ line_call.irq = irq
              /\ line_call.enabled = asked[Len(asked)].enabled

\* Processor 0 ran an enable and then a disable request in the order its
\* thread made them, before processor 1 ran a request made earlier than both.
C26_Witness ==
    /\ Len(asked) = 3
    /\ asked[1].cpu = 1 /\ asked[2].cpu = 0 /\ asked[3].cpu = 0
    /\ asked[2].enabled /\ ~asked[3].enabled
    /\ ran = <<asked[2], asked[3], asked[1]>>

\* C28: udd_unregister_device releases only what udd_register_device
\* acquired: rtdm_irq_free is called only for a concrete line, and the
\* mapper device is unregistered only when the device has a region (when
\* register_mapper ran).
C28_ReleasesOnlyAcquired ==
    reg_op = "unregister" =>
        /\ InCalls("irq_free") => ConcreteIrq
        /\ InCalls("mapper_unregister") => nr_maps > 0

\* C29: when udd_register_device has returned 0 the mapper device is
\* registered if and only if some slot is not NONE; its name is then the
\* device name followed by ",mapper", and a device with only NONE slots
\* has no mapper device and a NULL mapper name.
C29_MapperIffRegion ==
    (RegisterReturned /\ reg_ret = 0) =>
        /\ mapper_reg <=> (\E n \in Slots : mem_regions[n].type # "UDD_MEM_NONE")
        /\ mapper_reg => (mapper_name = device_name \o ",mapper" /\ name_live)
        /\ ~mapper_reg => (mapper_name = NULL /\ ~name_live)

\* A device on a concrete line whose only region is in the last slot has
\* been registered.
C29_Witness ==
    /\ RegisterReturned /\ reg_ret = 0
    /\ ConcreteIrq
    /\ \A n \in Slots : (mem_regions[n].type # "UDD_MEM_NONE") <=> (n = UDD_NR_MAPS - 1)
    /\ mapper_name = "foo,mapper"

\* C30: udd_irq_handler enters udd_notify_event once for each interrupt
\* the driver's interrupt operation answers with RTDM_IRQ_HANDLED and not at
\* all for any other answer, which leaves the counter, the event and the
\* signals alone; the handler returns the driver's answer as it is.
C30_State ==
    /\ n_raise = n_handled
    /\ event = n_handled % U32
    /\ k_pc = "notify" => k_res = "RTDM_IRQ_HANDLED"
    /\ k_pc = "ret" => k_res # "RTDM_IRQ_HANDLED"
    /\ r_pc["irq"] # "idle" => k_pc = "notify"

C30_Step ==
    /\ \A res \in IrqResults :
          IrqHandlerEnter(res) =>
              /\ res = "RTDM_IRQ_HANDLED" =>
                    /\ n_raise' = n_raise + 1
                    /\ event' = (event + 1) % U32
                    /\ r_pc'["irq"] = "signal"
              /\ res # "RTDM_IRQ_HANDLED" =>
                    UNCHANGED <<bridgeVars, raiseVars, sigs, handleVars>>
    /\ IrqHandlerReturn =>
          /\ k_ret' = k_res
          /\ UNCHANGED <<bridgeVars, raiseVars, sigs>>

C30_HandlerRaisesIfHandled == []C30_State /\ [][C30_Step]_vars

\* Three interrupts, two of them the device's: the counter is 2 and the
\* handler last returned RTDM_IRQ_NONE.
C30_Witness ==
    /\ n_irq = 3
    /\ n_handled = 2
    /\ event = 2
    /\ k_pc = "idle"
    /\ k_ret = "RTDM_IRQ_NONE"

\* C31: udd_register_device called on an Active device returns at once with
\* -EBUSY and touches nothing: no step of the registration runs, and the
\* event counter still counts every raise, the wait primitive is live, the
\* notification target is as it was, the interrupt line is bound if it is a
\* concrete one, and the mapper and the control device are registered.
C31_BusyLeavesActive ==
    /\ reg_pc = "idle"
    /\ (calls # RegisteredLog => reg_ret = EBUSY /\ calls = << >>)
    /\ event = n_raise % U32
    /\ pulse = "live"
    /\ signfy.pid = -1
    /\ irq_bound = ConcreteIrq
    /\ mapper_reg = (nr_maps > 0)
    /\ ~name_leaked
    /\ dev_reg

\* C32: a read() that returns a failure leaves the handle's last observed
\* count as it was when the read was called, whichever failure it is: a
\* wrong length or a missing line at the entry checks, an interrupted or
\* removed wait, or a failed copy of the value to the caller's buffer.
C32_Step ==
    /\ (h_pc["h1"] = "idle" /\ h_ret'["h1"] \in {EINVAL, EIO} /\ h_open'["h1"]) =>
           h_count'["h1"] = h_count["h1"]
    /\ (Reading("h1") /\ h_pc'["h1"] = "idle" /\ h_ret'["h1"] < 0) =>
           h_count'["h1"] = h_count["h1"]

C32_FailedReadKeepsCount == [][C32_Step]_vars

\* C33: no interrupt handler invocation signals the wait primitive after
\* udd_unregister_device has destroyed it: once the primitive is destroyed
\* no raise made from the interrupt handler is at its rtdm_event_signal.
C33_NoSignalAfterDestroy ==
    pulse = "destroyed" => r_pc["irq"] # "signal"

\* C34: select readiness agrees with read(). Whenever a handle is bound to
\* the wait primitive, is not inside a read() and every raise() has
\* signalled, the handle is reported read-ready exactly when a read() on it
\* would leave the loop without waiting, that is exactly when the shared
\* counter differs from the handle's last observed count.
C34_ReadyIffReadable ==
    (h_sel["h1"] /\ h_pc["h1"] = "idle" /\ RaisesSignalled) =>
        (SelectReady("h1") <=> ReadReady("h1"))

\* C35: once at least one raise() has occurred since the handle was opened
\* on a counter of 0, the handle's first read() does not block, however
\* many raises there were: the handle is never asleep in the wait of its
\* first read after a raise.
C35_ReadAfterRaises ==
    (h_pc["h1"] = "rd_sleep" /\ RaisesSignalled) => n_raise = 0

\* C36: a successful open() starts the handle's last observed count at 0,
\* whatever the counter is and whatever the handle or another handle
\* observed before, and touches no other handle; an open() refused by the
\* driver's open hook leaves the handle closed and every count as it was.
\* A handle opened while the counter is nonzero ("h2") never waits in its
\* first read: the read goes straight to the fetch and returns the current
\* counter value.
C36_State ==
    /\ h_open["h2"] => event # 0
    /\ (h_open["h2"] /\ h_count["h2"] = 0) =>
           /\ h_pc["h2"] \notin {"rd_wait", "rd_sleep", "rd_woken"}
           /\ h_last["h2"] = 0

C36_Step ==
    /\ \A h \in Handles :
          Open(h) =>
              /\ IF h_ret'[h] = 0
                 THEN h_open'[h] /\ h_count'[h] = 0 /\ h_last'[h] = 0
                 ELSE /\ ops.open
                      /\ ~h_open'[h]
                      /\ h_count'[h] = h_count[h]
                      /\ h_last'[h] = h_last[h]
              /\ \A g \in Handles \ {h} :
                    /\ h_open'[g] = h_open[g]
                    /\ h_count'[g] = h_count[g]
                    /\ h_last'[g] = h_last[g]
    /\ (h_pc["h2"] = "rd_check" /\ h_count["h2"] = 0 /\ h_pc'["h2"] # "rd_check") =>
           h_pc'["h2"] = "rd_fetch"
    /\ (h_pc["h2"] = "rd_fetch" /\ h_count["h2"] = 0 /\ h_ret'["h2"] = SizeofCount) =>
           /\ h_last'["h2"] = event
           /\ h_last'["h2"] # 0

C36_OpenStartsAtZero == []C36_State /\ [][C36_Step]_vars

\* With an open hook set: the first handle, which had read 1 in an earlier
\* life, has just been refused, and the second one, opened at counter 2, is
\* about to return 2 from its first read.
C36_Witness ==
    /\ ops.open
    /\ ~h_open["h1"] /\ h_ret["h1"] = EBUSY /\ h_last["h1"] = 1
    /\ h_open["h2"] /\ h_pc["h2"] = "rd_fetch" /\ h_count["h2"] = 0
    /\ event = 2

\* A step taken inside read() by handle h, its call and its return included.
ReadStep(h) == h_pc'[h] # h_pc[h] /\ (Reading(h) \/ h_pc'[h] = "rd_check")

\* C37: frame of the handle operations on an Active device. The shared
\* counter changes only in a raise, by exactly +1 modulo its width, and in
\* such a step no handle state changes; hence open, close, read, write,
\* select and the ioctls never change it. A step of read() on one handle
\* leaves the count and the last value of every other handle, and the
\* notification target, as they were; a handle's count changes only in its
\* own read or its own open.
C37_Step ==
    /\ event' # event =>
           /\ event' = (event + 1) % U32
           /\ n_raise' = n_raise + 1
           /\ r_pc["drv"] = "idle" /\ r_pc'["drv"] = "signal"
           /\ UNCHANGED <<handleVars, h_sel, signfy, io_arg, asked, work>>
    /\ \A h \in Handles :
          /\ ReadStep(h) =>
                 /\ event' = event
                 /\ signfy' = signfy
                 /\ \A g \in Handles \ {h} :
                        h_count'[g] = h_count[g] /\ h_last'[g] = h_last[g]
          /\ h_count'[h] # h_count[h] =>
                 h_pc[h] = "rd_fetch" \/ (~h_open[h] /\ h_open'[h])

C37_Frame == [][C37_Step]_vars

\* The second handle has set a notification target, bound a selector and
\* switched the line; the first one, which has read 1, is about to return 2
\* while the second one's count is still 0.
C37_Witness ==
    /\ h_open["h2"] /\ h_count["h2"] = 0 /\ h_sel["h2"]
    /\ signfy.pid = TargetPid
    /\ Len(asked) > 0
    /\ h_pc["h1"] = "rd_fetch" /\ h_last["h1"] = 1 /\ h_count["h1"] = 1
    /\ event = 2

============================================================================
